---- MODULE Spec2Model ----
(***************************************************************************)
(* Model of the CASS volume analyst core: the grid rasterizer              *)
(* (src/services/Gridifier.ts) and the grid-difference volume engine       *)
(* (src/services/VolumeCalculator.ts).                                     *)
(*                                                                         *)
(* Numbers.  A JavaScript number is modelled as a triple <<tag, n, d>>:    *)
(*   <<"fin", n, d>>  the rational n/d, d > 0, in lowest terms             *)
(*   <<"inf", s, 0>>  +Infinity (s = 1) or -Infinity (s = -1)              *)
(*   <<"nan", 0, 0>>  NaN                                                  *)
(* Finite arithmetic is exact: the rounding of IEEE doubles and of         *)
(* Float32Array stores is not modelled; the special values and their       *)
(* comparison rules are.                                                   *)
(***************************************************************************)
EXTENDS Integers, Sequences, FiniteSets, TLC

\* ------------------------------------------------------------------------
\* Sequencing
\* ------------------------------------------------------------------------
\* const x = e; return F(x): e is evaluated once, before F
With(e, F(_)) == CHOOSE r \in {F(x) : x \in {e}} : TRUE

\* ------------------------------------------------------------------------
\* JavaScript numbers
\* ------------------------------------------------------------------------
RECURSIVE Gcd(_, _)
Gcd(a, b) == IF b = 0 THEN a ELSE Gcd(b, a % b)

IAbs(n) == IF n < 0 THEN -n ELSE n

Fin(n, d) ==
  IF d = 1 THEN <<"fin", n, 1>>
  ELSE LET s == IF d < 0 THEN -1 ELSE 1
           g == Gcd(IAbs(n), IAbs(d))
       IN  <<"fin", (s * n) \div g, (s * d) \div g>>

I(n) == <<"fin", n, 1>>
PosInf == <<"inf", 1, 0>>
NegInf == <<"inf", -1, 0>>
NaN == <<"nan", 0, 0>>

IsFin(a) == a[1] = "fin"
IsInf(a) == a[1] = "inf"
IsNaN(a) == a[1] = "nan"

\* sign of a number that is not NaN: -1, 0 or 1
NSign(a) == IF a[2] < 0 THEN -1 ELSE IF a[2] > 0 THEN 1 ELSE 0

NNeg(a) == <<a[1], -a[2], a[3]>>

NAbs(a) == IF a[2] < 0 THEN NNeg(a) ELSE a

\* a < b for finite a, b; the integer parts are compared first so that the
\* cross products stay small
FinLt(a, b) ==
  LET fa == a[2] \div a[3]
      fb == b[2] \div b[3]
  IN  IF fa # fb THEN fa < fb
      ELSE (a[2] % a[3]) * b[3] < (b[2] % b[3]) * a[3]

\* the operator <
NLt(a, b) ==
  IF IsNaN(a) \/ IsNaN(b) THEN FALSE
  ELSE IF IsInf(a) THEN a[2] < 0 /\ a # b
  ELSE IF IsInf(b) THEN b[2] > 0
  ELSE FinLt(a, b)

\* the operator >
NGt(a, b) == NLt(b, a)

\* the operator === on numbers
NEq(a, b) == ~IsNaN(a) /\ ~IsNaN(b) /\ a = b

\* the operator <=
NLe(a, b) == NLt(a, b) \/ NEq(a, b)

\* the operator >=
NGe(a, b) == NLe(b, a)

NAdd(a, b) ==
  IF IsNaN(a) \/ IsNaN(b) THEN NaN
  ELSE IF IsInf(a) THEN (IF IsInf(b) /\ a # b THEN NaN ELSE a)
  ELSE IF IsInf(b) THEN b
  ELSE Fin(a[2] * b[3] + b[2] * a[3], a[3] * b[3])

NSub(a, b) == NAdd(a, NNeg(b))

NMul(a, b) ==
  IF IsNaN(a) \/ IsNaN(b) THEN NaN
  ELSE IF IsInf(a) \/ IsInf(b)
       THEN (IF NSign(a) * NSign(b) = 0 THEN NaN
             ELSE <<"inf", NSign(a) * NSign(b), 0>>)
  ELSE Fin(a[2] * b[2], a[3] * b[3])

\* the operator / (the sign of a zero is not modelled: x / 0 is +-Infinity
\* by the sign of x)
NDiv(a, b) ==
  IF IsNaN(a) \/ IsNaN(b) THEN NaN
  ELSE IF IsInf(a) THEN (IF IsInf(b) THEN NaN
                         ELSE <<"inf", a[2] * (IF b[2] < 0 THEN -1 ELSE 1), 0>>)
  ELSE IF IsInf(b) THEN I(0)
  ELSE IF b[2] = 0 THEN (IF a[2] = 0 THEN NaN ELSE <<"inf", NSign(a), 0>>)
  ELSE Fin(a[2] * b[3], a[3] * b[2])

\* Math.floor, Math.ceil, Math.round (round half up) and Math.abs
MathFloor(a) == IF IsFin(a) THEN I(a[2] \div a[3]) ELSE a

MathCeil(a) == IF IsFin(a) THEN I(-((-a[2]) \div a[3])) ELSE a

MathRound(a) == IF IsFin(a) THEN I((2 * a[2] + a[3]) \div (2 * a[3])) ELSE a

MathAbs(a) == NAbs(a)

\* Math.max and Math.min of two numbers
MathMax(a, b) == IF IsNaN(a) \/ IsNaN(b) THEN NaN ELSE IF NLt(a, b) THEN b ELSE a

MathMin(a, b) == IF IsNaN(a) \/ IsNaN(b) THEN NaN ELSE IF NLt(b, a) THEN b ELSE a

\* ------------------------------------------------------------------------
\* Text: a string is a sequence of one-character strings
\* ------------------------------------------------------------------------
IsWs(ch) == ch \in {" ", "\t", "\r", "\n"}

Digits == {"0", "1", "2", "3", "4", "5", "6", "7", "8", "9"}

DigitVal(ch) ==
  CASE ch = "0" -> 0 [] ch = "1" -> 1 [] ch = "2" -> 2 [] ch = "3" -> 3
    [] ch = "4" -> 4 [] ch = "5" -> 5 [] ch = "6" -> 6 [] ch = "7" -> 7
    [] ch = "8" -> 8 [] ch = "9" -> 9

IsPrefix(p, s) == Len(p) <= Len(s) /\ SubSeq(s, 1, Len(p)) = p

RECURSIVE SkipWs(_, _)
SkipWs(s, i) == IF i <= Len(s) /\ IsWs(s[i]) THEN SkipWs(s, i + 1) ELSE i

\* String.prototype.split(/\s+/): the pieces between maximal runs of white
\* space, with an empty piece before a leading run and after a trailing run
RECURSIVE SplitWsFrom(_, _, _)
SplitWsFrom(s, i, cur) ==
  IF i > Len(s) THEN <<cur>>
  ELSE IF IsWs(s[i]) THEN <<cur>> \o SplitWsFrom(s, SkipWs(s, i), <<>>)
  ELSE SplitWsFrom(s, i + 1, Append(cur, s[i]))

SplitWs(s) == SplitWsFrom(s, 1, <<>>)

\* String.prototype.split(/\r?\n/)
RECURSIVE SplitLinesFrom(_, _, _)
SplitLinesFrom(s, i, cur) ==
  IF i > Len(s) THEN <<cur>>
  ELSE IF s[i] = "\n" THEN <<cur>> \o SplitLinesFrom(s, i + 1, <<>>)
  ELSE IF s[i] = "\r" /\ i < Len(s) /\ s[i + 1] = "\n"
       THEN <<cur>> \o SplitLinesFrom(s, i + 2, <<>>)
  ELSE SplitLinesFrom(s, i + 1, Append(cur, s[i]))

SplitLines(s) == SplitLinesFrom(s, 1, <<>>)

\* number of leading decimal digits of s from position i on
RECURSIVE DigitRun(_, _)
DigitRun(s, i) ==
  IF i <= Len(s) /\ s[i] \in Digits THEN 1 + DigitRun(s, i + 1) ELSE 0

\* value of the k digits of s that start at position i
RECURSIVE DigitsVal(_, _, _)
DigitsVal(s, i, k) ==
  IF k = 0 THEN 0 ELSE 10 * DigitsVal(s, i, k - 1) + DigitVal(s[i + k - 1])

RECURSIVE Pow10(_)
Pow10(k) == IF k = 0 THEN 1 ELSE 10 * Pow10(k - 1)

\* parseFloat: skips leading white space, then reads the longest prefix that
\* is a decimal literal: an optional sign, then "Infinity" or digits with an
\* optional fraction (an exponent part is not modelled); NaN when there is
\* no such prefix
parseFloat(str) ==
  LET s    == SubSeq(str, SkipWs(str, 1), Len(str))
      neg  == Len(s) > 0 /\ s[1] = "-"
      body == IF Len(s) > 0 /\ s[1] \in {"-", "+"} THEN Tail(s) ELSE s
      k    == DigitRun(body, 1)
      m    == IF k < Len(body) /\ body[k + 1] = "." THEN DigitRun(body, k + 2) ELSE 0
      mag  == Fin(DigitsVal(body, 1, k) * Pow10(m) + DigitsVal(body, k + 2, m), Pow10(m))
  IN  IF IsPrefix(<<"I", "n", "f", "i", "n", "i", "t", "y">>, body)
      THEN (IF neg THEN NegInf ELSE PosInf)
      ELSE IF k = 0 /\ m = 0 THEN NaN
      ELSE IF neg THEN NNeg(mag) ELSE mag

\* ------------------------------------------------------------------------
\* Gridifier (src/services/Gridifier.ts)
\* ------------------------------------------------------------------------
NO_DATA == I(-1000000)

\* the cell-count ceiling of processFoldersToGrid
MaxCells == 5000000

\* readFileByLines: a file is the sequence of chunks its stream delivers;
\* the result is the sequence of lines handed to onLine
\* variant: the text after the last terminator of a chunk is dropped
PartialLineDropped(lines) == <<>>

\* partialLine = lines.pop() || ''
PartialLine(lines) == lines[Len(lines)]

\* the lines of a chunk that are handed to onLine: all but the last, if not
\* empty
CompleteLines(lines) ==
  SelectSeq(SubSeq(lines, 1, Len(lines) - 1), LAMBDA line : Len(line) > 0)

RECURSIVE ReadChunks(_, _, _)
ReadChunks(chunks, i, partialLine) ==
  IF i > Len(chunks)
  THEN (IF Len(partialLine) > 0 THEN <<partialLine>> ELSE <<>>)
  ELSE With(SplitLines(partialLine \o chunks[i]), LAMBDA lines :
         CompleteLines(lines) \o ReadChunks(chunks, i + 1, PartialLine(lines)))

readFileByLines(file) == ReadChunks(file, 1, <<>>)

\* line.startsWith('v ')
StartsWithV(line) == Len(line) >= 2 /\ line[1] = "v" /\ line[2] = " "

\* the onLine callback of streamScanBounds; b is {minX, minY, maxX, maxY}
ScanLine(b, line, origin) ==
  IF ~StartsWithV(line) THEN b
  ELSE LET parts == SplitWs(line) IN
       IF Len(parts) < 4 THEN b
       ELSE LET x == NAdd(parseFloat(parts[2]), origin.x)
                y == NAdd(parseFloat(parts[3]), origin.y)
            IN  [minX |-> IF NLt(x, b.minX) THEN x ELSE b.minX,
                 maxX |-> IF NGt(x, b.maxX) THEN x ELSE b.maxX,
                 minY |-> IF NLt(y, b.minY) THEN y ELSE b.minY,
                 maxY |-> IF NGt(y, b.maxY) THEN y ELSE b.maxY]

RECURSIVE ScanLines(_, _, _, _)
ScanLines(lines, i, b, origin) ==
  IF i > Len(lines) THEN b
  ELSE With(ScanLine(b, lines[i], origin), LAMBDA b1 : ScanLines(lines, i + 1, b1, origin))

EmptyBounds == [minX |-> PosInf, minY |-> PosInf, maxX |-> NegInf, maxY |-> NegInf]

streamScanBounds(file, origin) ==
  With(readFileByLines(file), LAMBDA lines : ScanLines(lines, 1, EmptyBounds, origin))

\* the cell index of a coordinate in streamPopulateGrid
CellIndex(v, min, gridSize) == MathRound(NDiv(NSub(v, min), I(gridSize)))

\* variant: every sample that is a number replaces the stored one
KeepsLastSample(z, old) == ~IsNaN(z)

\* z > grid[idx]: the new sample replaces the stored one
KeepsNewSample(z, old) == NGt(z, old)

\* the onLine callback of streamPopulateGrid; rows and cols are numbers
PopulateLine(grid, line, origin, minX, minY, cols, rows, gridSize) ==
  IF ~StartsWithV(line) THEN grid
  ELSE LET parts == SplitWs(line) IN
       IF Len(parts) < 4 THEN grid
       ELSE LET x == NAdd(parseFloat(parts[2]), origin.x)
                y == NAdd(parseFloat(parts[3]), origin.y)
                z == NAdd(parseFloat(parts[4]), origin.z)
                c == CellIndex(x, minX, gridSize)
                r == CellIndex(y, minY, gridSize)
            IN  IF NGe(r, I(0)) /\ NLt(r, rows) /\ NGe(c, I(0)) /\ NLt(c, cols)
                THEN LET idx == r[2] * cols[2] + c[2] IN
                     IF KeepsNewSample(z, grid[idx + 1])
                     THEN [grid EXCEPT ![idx + 1] = z]
                     ELSE grid
                ELSE grid

RECURSIVE PopulateLines(_, _, _, _, _, _, _, _, _)
PopulateLines(lines, i, grid, origin, minX, minY, cols, rows, gridSize) ==
  IF i > Len(lines) THEN grid
  ELSE With(PopulateLine(grid, lines[i], origin, minX, minY, cols, rows, gridSize),
            LAMBDA grid1 : PopulateLines(lines, i + 1, grid1, origin, minX, minY,
                                         cols, rows, gridSize))

streamPopulateGrid(file, origin, grid, minX, minY, cols, rows, gridSize) ==
  With(readFileByLines(file), LAMBDA lines :
    PopulateLines(lines, 1, grid, origin, minX, minY, cols, rows, gridSize))

\* the neighbours (nr, nc) of cell (r, c) that fillHoles visits, in order
NeighbourOffsets ==
  << <<-1, -1>>, <<-1, 0>>, <<-1, 1>>, <<0, -1>>, <<0, 1>>, <<1, -1>>, <<1, 0>>, <<1, 1>> >>

\* the valid 8-neighbours of (r, c) in grid, as a sequence of heights
ValidNeighbours(grid, rows, cols, r, c) ==
  LET at(k) == <<r + NeighbourOffsets[k][1], c + NeighbourOffsets[k][2]>>
      inside(k) == at(k)[1] >= 0 /\ at(k)[1] < rows /\ at(k)[2] >= 0 /\ at(k)[2] < cols
      val(k) == grid[at(k)[1] * cols + at(k)[2] + 1]
      ks == SelectSeq(<<1, 2, 3, 4, 5, 6, 7, 8>>,
                      LAMBDA k : inside(k) /\ ~NEq(val(k), NO_DATA))
  IN  [j \in 1..Len(ks) |-> val(ks[j])]

RECURSIVE NSum(_, _)
NSum(vals, i) == IF i > Len(vals) THEN I(0) ELSE NAdd(vals[i], NSum(vals, i + 1))

\* the least number of valid neighbours for which a hole is filled
MinNeighbours == 2

\* the number of passes of fillHoles
FillPasses == 2

\* variant: a hole is filled with the sum of its valid neighbours
FillPassSum(grid, copy, rows, cols) ==
  LET filled == [k \in 1..(rows * cols) |->
        LET idx == k - 1
            ns == ValidNeighbours(grid, rows, cols, idx \div cols, idx % cols)
        IN  IF ~NEq(grid[k], NO_DATA) THEN copy[k]
            ELSE IF Len(ns) >= MinNeighbours THEN NSum(ns, 1) ELSE copy[k]]
  IN  SubSeq(filled, 1, rows * cols)

\* variant: the pass reads the buffer it writes
ReadsCopy(grid, copy) == copy

\* the buffer a pass reads: grid, which is not written before the pass ends
ReadBuffer(grid, copy) == grid

\* variant: no cell is passed over
IsHoleOrValid(v) == TRUE

\* grid[idx] !== NO_DATA makes the loop pass over the cell
IsHole(v) == NEq(v, NO_DATA)

\* the body of the cell loop for cell k: the value copy[k] has after it
FillCell(grid, copy, rows, cols, k) ==
  LET buf == ReadBuffer(grid, copy)
      ns == ValidNeighbours(buf, rows, cols, (k - 1) \div cols, (k - 1) % cols)
  IN  IF ~IsHole(buf[k]) THEN copy[k]
      ELSE IF Len(ns) >= MinNeighbours
           THEN NDiv(NSum(ns, 1), I(Len(ns)))
           ELSE copy[k]

\* the cell loop over the cells order[i], order[i + 1], ...
RECURSIVE FillInOrder(_, _, _, _, _, _)
FillInOrder(grid, copy, rows, cols, order, i) ==
  IF i > Len(order) THEN copy
  ELSE With([copy EXCEPT ![order[i]] = FillCell(grid, copy, rows, cols, order[i])],
            LAMBDA copy1 : FillInOrder(grid, copy1, rows, cols, order, i + 1))

\* the order of the loops over r and c
RowMajor(rows, cols) == [k \in 1..(rows * cols) |-> k]

\* one pass of fillHoles: the body of the cell loop reads grid and writes
\* only the entry of its own cell into copy, so every entry is the one the
\* body gives from the buffers at the start of the pass
FillPass(grid, copy, rows, cols) ==
  SubSeq([k \in 1..(rows * cols) |-> FillCell(grid, copy, rows, cols, k)], 1, rows * cols)

RECURSIVE FillPassesFrom(_, _, _, _)
FillPassesFrom(grid, rows, cols, pass) ==
  IF pass >= FillPasses THEN grid
  ELSE With(FillPass(grid, grid, rows, cols), LAMBDA copy :
         FillPassesFrom(copy, rows, cols, pass + 1))

\* fillHoles(grid, rows, cols): rows and cols are numbers; a loop bound that
\* is NaN or not positive leaves the grid as it is
fillHoles(grid, rows, cols) ==
  IF IsFin(rows) /\ IsFin(cols) /\ rows[2] > 0 /\ cols[2] > 0 /\ Len(grid) > 0
  THEN FillPassesFrom(grid, rows[2], cols[2], 0)
  ELSE grid

\* variant: the bounds of the last file that has any replace the running ones
MergeBoundsLast(acc, b) == IF NEq(b.minX, PosInf) THEN acc ELSE b

\* the body of the first loop of processFoldersToGrid: a file's bounds are
\* merged into the running bounds
MergeBounds(acc, b) ==
  [minX |-> IF NLt(b.minX, acc.minX) THEN b.minX ELSE acc.minX,
   minY |-> IF NLt(b.minY, acc.minY) THEN b.minY ELSE acc.minY,
   maxX |-> IF NGt(b.maxX, acc.maxX) THEN b.maxX ELSE acc.maxX,
   maxY |-> IF NGt(b.maxY, acc.maxY) THEN b.maxY ELSE acc.maxY]

\* new Float32Array(len).fill(v): ToIndex turns NaN into 0 and rejects a
\* negative or infinite length with a RangeError
NewFloat32Array(len, v) ==
  IF IsNaN(len) THEN [ok |-> TRUE, arr |-> <<>>]
  ELSE IF IsInf(len) \/ len[2] < 0 THEN [ok |-> FALSE, arr |-> <<>>]
  ELSE LET n == len[2] \div len[3] IN
       [ok |-> TRUE, arr |-> SubSeq([k \in 1..n |-> v], 1, n)]

\* variant: the array is allocated before the ceiling is checked (the array
\* itself is left out where the ceiling is exceeded)
InitGridAllocFirst(b, gridSize) ==
  IF NEq(b.minX, PosInf)
  THEN [err |-> "NoData", cols |-> I(0), rows |-> I(0), heights |-> <<>>, allocated |-> FALSE]
  ELSE LET cols_ == NAdd(MathCeil(NDiv(NSub(b.maxX, b.minX), I(gridSize))), I(1))
           rows_ == NAdd(MathCeil(NDiv(NSub(b.maxY, b.minY), I(gridSize))), I(1))
       IN  IF NGt(NMul(cols_, rows_), I(MaxCells))
           THEN [err |-> "GridTooLarge", cols |-> cols_, rows |-> rows_,
                 heights |-> <<>>, allocated |-> TRUE]
           ELSE LET a == NewFloat32Array(NMul(rows_, cols_), NO_DATA) IN
                [err |-> IF a.ok THEN "none" ELSE "RangeError",
                 cols |-> cols_, rows |-> rows_, heights |-> a.arr, allocated |-> TRUE]

\* processFoldersToGrid between the two passes: the no-data check, the grid
\* dimensions, the cell-count ceiling and the allocation.  allocated tells
\* whether new Float32Array was evaluated.
InitGrid(b, gridSize) ==
  IF NEq(b.minX, PosInf)
  THEN [err |-> "NoData", cols |-> I(0), rows |-> I(0), heights |-> <<>>, allocated |-> FALSE]
  ELSE LET cols_ == NAdd(MathCeil(NDiv(NSub(b.maxX, b.minX), I(gridSize))), I(1))
           rows_ == NAdd(MathCeil(NDiv(NSub(b.maxY, b.minY), I(gridSize))), I(1))
       IN  IF NGt(NMul(cols_, rows_), I(MaxCells))
           THEN [err |-> "GridTooLarge", cols |-> cols_, rows |-> rows_,
                 heights |-> <<>>, allocated |-> FALSE]
           ELSE LET a == NewFloat32Array(NMul(rows_, cols_), NO_DATA) IN
                [err |-> IF a.ok THEN "none" ELSE "RangeError",
                 cols |-> cols_, rows |-> rows_, heights |-> a.arr, allocated |-> TRUE]

\* the GridData object that processFoldersToGrid returns
GridData(b, rows_, cols_, gridSize_, heights_) ==
  [minX |-> b.minX, minY |-> b.minY, maxX |-> b.maxX, maxY |-> b.maxY,
   rows |-> rows_, cols |-> cols_, gridSize |-> gridSize_, heights |-> heights_]

Undefined == [undefined |-> TRUE]

RECURSIVE ScanAll(_, _, _, _)
ScanAll(fs, i, acc, origin) ==
  IF i > Len(fs) THEN acc
  ELSE With(MergeBounds(acc, streamScanBounds(fs[i], origin)), LAMBDA acc1 :
         ScanAll(fs, i + 1, acc1, origin))

RECURSIVE PopulateAll(_, _, _, _, _, _, _, _)
PopulateAll(fs, i, grid, origin, b, cols, rows, gridSize) ==
  IF i > Len(fs) THEN grid
  ELSE With(streamPopulateGrid(fs[i], origin, grid, b.minX, b.minY, cols, rows, gridSize),
            LAMBDA grid1 : PopulateAll(fs, i + 1, grid1, origin, b, cols, rows, gridSize))

\* processFoldersToGrid from call to settlement: the error it rejects with
\* and the GridData it resolves with
processFoldersToGrid(fs, origin, gridSize) ==
  With(ScanAll(fs, 1, EmptyBounds, origin), LAMBDA b :
    With(InitGrid(b, gridSize), LAMBDA g :
      IF g.err # "none" THEN [err |-> g.err, grid |-> Undefined]
      ELSE With(PopulateAll(fs, 1, g.heights, origin, b, g.cols, g.rows, gridSize),
             LAMBDA binned :
               [err |-> "none",
                grid |-> GridData(b, g.rows, g.cols, gridSize,
                                  fillHoles(binned, g.rows, g.cols))])))

\* ------------------------------------------------------------------------
\* VolumeCalculator (src/services/VolumeCalculator.ts)
\* ------------------------------------------------------------------------
Vec2(x_, y_) == [x |-> x_, y |-> y_]

\* Math.cos and Math.sin; an angle is modelled in quarter turns, for which
\* both are exact
MathCos(a) ==
  IF ~IsFin(a) \/ a[3] # 1 THEN NaN
  ELSE CASE a[2] % 4 = 0 -> I(1) [] a[2] % 4 = 2 -> I(-1) [] OTHER -> I(0)

MathSin(a) ==
  IF ~IsFin(a) \/ a[3] # 1 THEN NaN
  ELSE CASE a[2] % 4 = 1 -> I(1) [] a[2] % 4 = 3 -> I(-1) [] OTHER -> I(0)

\* variant: the inside of a clip edge is its right side, as for a clockwise
\* clip polygon
isInsideEdgeClockwise(p, start, end) ==
  NLe(NSub(NMul(NSub(end.x, start.x), NSub(p.y, start.y)),
           NMul(NSub(end.y, start.y), NSub(p.x, start.x))), I(0))

\* variant: the inside of a clip edge is what lies right of its start
isInsideEdgeRightOfStart(p, start, end) == NGe(p.x, start.x)

isInsideEdge(p, start, end) ==
  NGe(NSub(NMul(NSub(end.x, start.x), NSub(p.y, start.y)),
           NMul(NSub(end.y, start.y), NSub(p.x, start.x))), I(0))

\* the denominator of n3 in getIntersection
Denominator(s, e, start, end) ==
  NSub(NMul(NSub(start.x, end.x), NSub(s.y, e.y)), NMul(NSub(start.y, end.y), NSub(s.x, e.x)))

getIntersection(s, e, start, end) ==
  LET dcx == NSub(start.x, end.x)
      dcy == NSub(start.y, end.y)
      dpx == NSub(s.x, e.x)
      dpy == NSub(s.y, e.y)
      n1 == NSub(NMul(start.x, end.y), NMul(start.y, end.x))
      n2 == NSub(NMul(s.x, e.y), NMul(s.y, e.x))
      n3 == NDiv(I(1), NSub(NMul(dcx, dpy), NMul(dcy, dpx)))
  IN  Vec2(NMul(NSub(NMul(n1, dpx), NMul(n2, dcx)), n3),
           NMul(NSub(NMul(n1, dpy), NMul(n2, dcy)), n3))

\* the inner loop of clipPolygon: input clipped against one clip edge; s is
\* the vertex before input[i]
RECURSIVE ClipEdge(_, _, _, _, _, _)
ClipEdge(input, i, s, output, clipEdgeStart, clipEdgeEnd) ==
  IF i > Len(input) THEN output
  ELSE LET e == input[i] IN
       With(IF isInsideEdge(e, clipEdgeStart, clipEdgeEnd)
            THEN (IF ~isInsideEdge(s, clipEdgeStart, clipEdgeEnd)
                  THEN output \o <<getIntersection(s, e, clipEdgeStart, clipEdgeEnd), e>>
                  ELSE Append(output, e))
            ELSE IF isInsideEdge(s, clipEdgeStart, clipEdgeEnd)
            THEN Append(output, getIntersection(s, e, clipEdgeStart, clipEdgeEnd))
            ELSE output,
            LAMBDA out : ClipEdge(input, i + 1, e, out, clipEdgeStart, clipEdgeEnd))

\* the outer loop of clipPolygon, from clip edge j on
RECURSIVE ClipFrom(_, _, _)
ClipFrom(output, clip, j) ==
  IF j > Len(clip) THEN output
  ELSE IF Len(output) = 0 THEN <<>>
  ELSE With(ClipEdge(output, 1, output[Len(output)], <<>>,
                     clip[j], clip[(j % Len(clip)) + 1]),
            LAMBDA out : ClipFrom(out, clip, j + 1))

\* Sutherland-Hodgman clipping of subject against clip
clipPolygon(subject, clip) == With(subject, LAMBDA output : ClipFrom(output, clip, 1))

RECURSIVE ShoelaceFrom(_, _)
ShoelaceFrom(poly, i) ==
  IF i > Len(poly) THEN I(0)
  ELSE LET j == (i % Len(poly)) + 1 IN
       NAdd(NSub(NMul(poly[i].x, poly[j].y), NMul(poly[j].x, poly[i].y)),
            ShoelaceFrom(poly, i + 1))

getPolygonArea(poly) ==
  With(poly, LAMBDA p : NDiv(MathAbs(ShoelaceFrom(p, 1)), I(2)))

getHeightFromLocalGrid(grid, lx, ly) ==
  LET c == MathFloor(NDiv(NSub(lx, grid.minX), I(grid.gridSize)))
      r == MathFloor(NDiv(NSub(ly, grid.minY), I(grid.gridSize)))
  IN  IF NGe(r, I(0)) /\ NLt(r, grid.rows) /\ NGe(c, I(0)) /\ NLt(c, grid.cols)
      THEN grid.heights[r[2] * grid.cols[2] + c[2] + 1]
      ELSE I(-1000000)

\* null
Null == [null |-> TRUE]

\* a BoundaryPoint[]: the array is the field points
Boundary(pts) == [points |-> pts]

\* whether object o has the property f; reading a property that an object
\* does not have gives undefined
HasProperty(o, f) == f \in DOMAIN o

\* the boundary points in the local frame of grid1, which has an anchor; a
\* rotationAngle that is undefined makes the angle NaN
LocalBoundary(points, grid1) ==
  LET angle == IF HasProperty(grid1, "rotationAngle") THEN grid1.rotationAngle ELSE NaN
      cos == MathCos(NNeg(angle))
      sin == MathSin(NNeg(angle))
  IN  [k \in 1..Len(points) |->
         LET dx == NSub(points[k].x, grid1.anchor.x)
             dy == NSub(points[k].y, grid1.anchor.y)
         IN  Vec2(NSub(NMul(dx, cos), NMul(dy, sin)),
                  NAdd(NMul(dx, sin), NMul(dy, cos)))]

\* variant: the heights are added
HeightSum(h1, h2) == NAdd(h2, h1)

\* const diff = h2 - h1
HeightDiff(h1, h2) == NSub(h2, h1)

\* the smallest effective area of a cell that is integrated
MinArea == Fin(1, 10000)

\* variant: a cell is skipped only when both heights are unresolved
SkipsWhenBothUnresolved(h1, h2) == NLe(h1, NO_DATA) /\ NLe(h2, NO_DATA)

\* if (h1 <= NO_DATA || h2 <= NO_DATA) continue
SkipsUnresolved(h1, h2) == NLe(h1, NO_DATA) \/ NLe(h2, NO_DATA)

\* variant: the net volume is cut minus fill
NetVolumeCutMinusFill(fillVolume, cutVolume) == NSub(cutVolume, fillVolume)

\* netVolume: fillVolume - cutVolume
NetVolume(fillVolume, cutVolume) == NSub(fillVolume, cutVolume)

\* the body of the cell loop of calculateFromGrids for cell (r, c); acc holds
\* cutVolume, fillVolume, totalArea and diffData
VolumeCell(acc, r, c, cols, minX, minY, gridSize, grid1, grid2, localBoundary) ==
  With(I(gridSize), LAMBDA gs :
  With(NAdd(minX, I(c * gridSize)), LAMBDA lx :
  With(NAdd(minY, I(r * gridSize)), LAMBDA ly :
  With(<< Vec2(lx, ly), Vec2(NAdd(lx, gs), ly),
          Vec2(NAdd(lx, gs), NAdd(ly, gs)), Vec2(lx, NAdd(ly, gs)) >>, LAMBDA cellRect :
  With(IF Len(localBoundary) > 0
       THEN getPolygonArea(clipPolygon(cellRect, localBoundary))
       ELSE NMul(gs, gs), LAMBDA effectiveArea :
    IF NLe(effectiveArea, MinArea) THEN acc
    ELSE
      With(getHeightFromLocalGrid(grid1, NAdd(lx, NDiv(gs, I(2))), NAdd(ly, NDiv(gs, I(2)))),
           LAMBDA h1 :
      With(getHeightFromLocalGrid(grid2, NAdd(lx, NDiv(gs, I(2))), NAdd(ly, NDiv(gs, I(2)))),
           LAMBDA h2 :
        IF SkipsUnresolved(h1, h2) THEN acc
        ELSE
          With(HeightDiff(h1, h2), LAMBDA diff :
            [cutVolume |-> IF NGt(diff, I(0)) THEN acc.cutVolume
                           ELSE NAdd(acc.cutVolume, NMul(MathAbs(diff), effectiveArea)),
             fillVolume |-> IF NGt(diff, I(0))
                            THEN NAdd(acc.fillVolume, NMul(diff, effectiveArea))
                            ELSE acc.fillVolume,
             totalArea |-> NAdd(acc.totalArea, effectiveArea),
             diffData |-> [acc.diffData EXCEPT ![r * cols + c + 1] = diff]]))))))))

\* the cell loop of calculateFromGrids from cell number k on, row by row
RECURSIVE VolumeCells(_, _, _, _, _, _, _, _, _, _)
VolumeCells(acc, k, rows, cols, minX, minY, gridSize, grid1, grid2, localBoundary) ==
  IF k >= rows * cols THEN acc
  ELSE With(VolumeCell(acc, k \div cols, k % cols, cols, minX, minY, gridSize,
                       grid1, grid2, localBoundary),
            LAMBDA acc1 : VolumeCells(acc1, k + 1, rows, cols, minX, minY, gridSize,
                                      grid1, grid2, localBoundary))

\* the outcome of a call: the error thrown, or the value returned
Thrown(e) == [err |-> e, result |-> Undefined]

Returned(v) == [err |-> "none", result |-> v]

\* a number passed where an object is expected
NumberValue(n) == [number |-> n]

IsNumberValue(v) == HasProperty(v, "number")

\* if (boundary): null, 0 and NaN are falsy
Truthy(v) ==
  IF IsNumberValue(v) THEN ~IsNaN(v.number) /\ v.number # I(0) ELSE v # Null

\* calculateFromGrids: boundary is Null or a Boundary, or the number that a
\* caller passes in its place, on which boundary.forEach is not a function
calculateFromGrids(grid1, grid2, boundary) ==
  With(MathMax(grid1.minX, grid2.minX), LAMBDA minX :
  With(MathMax(grid1.minY, grid2.minY), LAMBDA minY :
  With(MathMin(grid1.maxX, grid2.maxX), LAMBDA maxX :
  With(MathMin(grid1.maxY, grid2.maxY), LAMBDA maxY :
  With(grid1.gridSize, LAMBDA gridSize :
  With(MathCeil(NDiv(NSub(maxX, minX), I(gridSize))), LAMBDA cols :
  With(MathCeil(NDiv(NSub(maxY, minY), I(gridSize))), LAMBDA rows :
  With(NewFloat32Array(NMul(rows, cols), I(0)), LAMBDA diffData :
    IF ~diffData.ok THEN Thrown("RangeError")
    ELSE IF IsNumberValue(boundary) /\ Truthy(boundary)
    THEN Thrown("TypeError")
    ELSE IF HasProperty(boundary, "points") /\ Len(boundary.points) > 0
            /\ ~HasProperty(grid1, "anchor")
    THEN Thrown("TypeError")
    ELSE
      With(IF HasProperty(boundary, "points")
           THEN SubSeq(LocalBoundary(boundary.points, grid1), 1, Len(boundary.points))
           ELSE <<>>, LAMBDA localBoundary :
      With([cutVolume |-> I(0), fillVolume |-> I(0), totalArea |-> I(0),
            diffData |-> diffData.arr], LAMBDA acc0 :
      With(IF IsFin(rows) /\ IsFin(cols) /\ rows[2] > 0 /\ cols[2] > 0
           THEN VolumeCells(acc0, 0, rows[2], cols[2], minX, minY, gridSize,
                            grid1, grid2, localBoundary)
           ELSE acc0, LAMBDA acc :
        Returned([cutVolume |-> acc.cutVolume,
                  fillVolume |-> acc.fillVolume,
                  netVolume |-> NetVolume(acc.fillVolume, acc.cutVolume),
                  area |-> acc.totalArea,
                  gridSize |-> gridSize,
                  diffMap |-> [minX |-> minX, minY |-> minY, maxX |-> maxX,
                               maxY |-> maxY, rows |-> rows, cols |-> cols,
                               data |-> acc.diffData]]))))))))))))

\* variant: one grid is enough to enter calculateFromGrids, which then fails
\* on the missing one
calculateEitherGrid(mesh1, mesh2, boundary) ==
  IF mesh1.grid # Undefined \/ mesh2.grid # Undefined
  THEN (IF mesh1.grid # Undefined /\ mesh2.grid # Undefined
        THEN calculateFromGrids(mesh1.grid, mesh2.grid, boundary)
        ELSE Thrown("TypeError"))
  ELSE Thrown("NotRasterized")

\* VolumeCalculator.calculate
calculate(mesh1, mesh2, boundary) ==
  IF mesh1.grid # Undefined /\ mesh2.grid # Undefined
  THEN calculateFromGrids(mesh1.grid, mesh2.grid, boundary)
  ELSE Thrown("NotRasterized")

\* ------------------------------------------------------------------------
\* State
\* ------------------------------------------------------------------------
VARIABLES
  files,      \* processFoldersToGrid: the files argument
  origin,     \* the origin argument
  gridSize,   \* the gridSize argument
  pc,         \* position in processFoldersToGrid
  fileIdx,    \* index of the file the current loop awaits
  bounds,     \* minX, minY, maxX, maxY of processFoldersToGrid
  cols,       \* cols
  rows,       \* rows
  heights,    \* the heights array
  allocs,     \* number of heights arrays allocated so far
  ret,        \* the GridData the promise resolved with
  err,        \* the error the promise rejected with
  mesh1,      \* VolumeCalculator.calculate: the mesh1 argument
  mesh2,      \* the mesh2 argument
  boundary,   \* the boundary argument
  vpc,        \* position of the call of calculate
  result,     \* the VolumeResult returned
  verr,       \* the error thrown
  fhpc,       \* fillHoles called on its own: position of the call
  fhRows,     \* the rows argument
  fhCols,     \* the cols argument
  fhEntry,    \* the grid argument as it was on entry
  fhGrid,     \* the grid argument
  rdpc,       \* readFileByLines called on its own: position of the call
  rdChunks,   \* the chunks that the stream of the file delivers
  rdIdx,      \* index of the chunk that reader.read() delivers next
  rdPartial,  \* partialLine
  rdLines,    \* the lines handed to onLine so far
  appMesh1,   \* App: the state mesh1
  appMesh2,   \* the state mesh2
  appBoundary, \* the state boundary
  files1,     \* the state files1, a folder or none
  files2,     \* the state files2
  appGridSize, \* the state gridSize
  appResult,  \* the state result
  calculating, \* the state calculating
  error,      \* the state error
  tasks,      \* the runs of processFiles and runAnalysis that have not ended
  lastCall,   \* the arguments of the last call of VolumeCalculator.calculate
  cache,      \* the grids in the object store cached_grids
  cachePc,    \* position of loadCache
  acts        \* number of user actions so far

gvars == <<files, origin, gridSize, pc, fileIdx, bounds, cols, rows, heights, allocs, ret, err>>

vvars == <<mesh1, mesh2, boundary, vpc, result, verr>>

fvars == <<fhpc, fhRows, fhCols, fhEntry, fhGrid>>

rvars == <<rdpc, rdChunks, rdIdx, rdPartial, rdLines>>

avars == <<appMesh1, appMesh2, appBoundary, files1, files2, appGridSize, appResult,
           calculating, error, tasks, lastCall, cache, cachePc, acts>>

vars == <<gvars, vvars, fvars, rvars, avars>>

\* first pass, one file: for (const file of files) { await streamScanBounds }
ScanFile ==
  /\ pc = "scan"
  /\ fileIdx <= Len(files)
  /\ bounds' = MergeBounds(bounds, streamScanBounds(files[fileIdx], origin))
  /\ fileIdx' = fileIdx + 1
  /\ UNCHANGED <<files, origin, gridSize, pc, cols, rows, heights, allocs, ret, err>>
  /\ UNCHANGED <<vvars, fvars, rvars, avars>>

\* after the first pass: checks and allocation, up to the first await of
\* the second pass
InitGridStep ==
  /\ pc = "scan"
  /\ fileIdx > Len(files)
  /\ LET g == InitGrid(bounds, gridSize) IN
     /\ err' = g.err
     /\ cols' = g.cols
     /\ rows' = g.rows
     /\ heights' = g.heights
     /\ allocs' = IF g.allocated THEN allocs + 1 ELSE allocs
     /\ pc' = IF g.err = "none" THEN "populate" ELSE "error"
  /\ fileIdx' = 1
  /\ UNCHANGED <<files, origin, gridSize, bounds, ret>>
  /\ UNCHANGED <<vvars, fvars, rvars, avars>>

\* second pass, one file: await streamPopulateGrid
PopulateFile ==
  /\ pc = "populate"
  /\ fileIdx <= Len(files)
  /\ heights' = streamPopulateGrid(files[fileIdx], origin, heights,
                                   bounds.minX, bounds.minY, cols, rows, gridSize)
  /\ fileIdx' = fileIdx + 1
  /\ UNCHANGED <<files, origin, gridSize, pc, bounds, cols, rows, allocs, ret, err>>
  /\ UNCHANGED <<vvars, fvars, rvars, avars>>

\* after the second pass: fillHoles and the return
FillAndReturn ==
  /\ pc = "populate"
  /\ fileIdx > Len(files)
  /\ heights' = fillHoles(heights, rows, cols)
  /\ ret' = GridData(bounds, rows, cols, gridSize, heights')
  /\ pc' = "done"
  /\ UNCHANGED <<files, origin, gridSize, fileIdx, bounds, cols, rows, allocs, err>>
  /\ UNCHANGED <<vvars, fvars, rvars, avars>>

\* a call of VolumeCalculator.calculate
Calculate ==
  /\ vpc = "call"
  /\ LET out == calculate(mesh1, mesh2, boundary) IN
     /\ result' = out.result
     /\ verr' = out.err
  /\ vpc' = "returned"
  /\ UNCHANGED <<mesh1, mesh2, boundary>>
  /\ UNCHANGED <<gvars, fvars, rvars, avars>>

\* a call of fillHoles
FillHoles ==
  /\ fhpc = "call"
  /\ fhGrid' = fillHoles(fhGrid, I(fhRows), I(fhCols))
  /\ fhpc' = "returned"
  /\ UNCHANGED <<fhRows, fhCols, fhEntry>>
  /\ UNCHANGED <<gvars, vvars, rvars, avars>>

\* readFileByLines: one iteration of the loop, on the chunk that read()
\* delivers
ReadChunk ==
  /\ rdpc = "read"
  /\ rdIdx <= Len(rdChunks)
  /\ LET lines == SplitLines(rdPartial \o rdChunks[rdIdx]) IN
     /\ rdPartial' = PartialLine(lines)
     /\ rdLines' = rdLines \o CompleteLines(lines)
  /\ rdIdx' = rdIdx + 1
  /\ UNCHANGED <<rdpc, rdChunks>>
  /\ UNCHANGED <<gvars, vvars, fvars, avars>>

\* readFileByLines: read() reports done; the rest of the text is a line
ReadDone ==
  /\ rdpc = "read"
  /\ rdIdx > Len(rdChunks)
  /\ rdLines' = IF Len(rdPartial) > 0 THEN Append(rdLines, rdPartial) ELSE rdLines
  /\ rdpc' = "done"
  /\ UNCHANGED <<rdChunks, rdIdx, rdPartial>>
  /\ UNCHANGED <<gvars, vvars, fvars, avars>>

\* no call of readFileByLines on its own
IdleReader ==
  /\ rdpc = "idle" /\ rdChunks = <<>> /\ rdIdx = 1 /\ rdPartial = <<>> /\ rdLines = <<>>

\* no call of processFoldersToGrid
IdleGridifier ==
  /\ files = <<>> /\ origin = [x |-> I(0), y |-> I(0), z |-> I(0)] /\ gridSize = 1
  /\ pc = "idle" /\ fileIdx = 1 /\ bounds = EmptyBounds /\ cols = I(0) /\ rows = I(0)
  /\ heights = <<>> /\ allocs = 0 /\ ret = Undefined /\ err = "none"

\* no call of calculate
IdleVolume ==
  /\ mesh1 = Undefined /\ mesh2 = Undefined /\ boundary = Null
  /\ vpc = "idle" /\ result = Undefined /\ verr = "none"

\* the task slot of no run
NoTask == [kind |-> "idle"]

\* no App
IdleApp ==
  /\ appMesh1 = Null /\ appMesh2 = Null /\ appBoundary = Null
  /\ files1 = <<>> /\ files2 = <<>> /\ appGridSize = 0 /\ appResult = Null
  /\ calculating = FALSE /\ error = Null /\ tasks = <<>> /\ lastCall = Null
  /\ cache = Null /\ cachePc = "idle" /\ acts = 0

\* no call of fillHoles on its own
IdleFill ==
  /\ fhpc = "idle" /\ fhRows = 0 /\ fhCols = 0 /\ fhEntry = <<>> /\ fhGrid = <<>>

\* ------------------------------------------------------------------------
\* Inputs of the rasterizer
\* ------------------------------------------------------------------------
Sp == <<" ">>
NL == <<"\n">>
CRLF == <<"\r", "\n">>
T0 == <<"0">>
T1 == <<"1">>
T2 == <<"2">>
T3 == <<"3">>
T4 == <<"4">>
T9 == <<"9">>
TFar == <<"9", "0", "0", "0">>
TLow == <<"-", "2", "0", "0", "0", "0", "0", "0">>
TAbc == <<"a", "b", "c">>
TInf == <<"I", "n", "f", "i", "n", "i", "t", "y">>

\* the text of a vertex record "v x y z"
V(x, y, z) == <<"v">> \o Sp \o x \o Sp \o y \o Sp \o z

\* three corners of a square, one record per line
FileCorners == << V(T0, T0, T1) \o NL \o V(T2, T0, T2) \o NL \o V(T0, T2, T4) \o NL >>

\* two records of one cell and a CR LF, delivered in two chunks that split a
\* record; no terminator after the last record
FileMid == << V(T1, T1, T3) \o NL \o <<"v", " ", "1">>,
              Sp \o T1 \o Sp \o T2 \o CRLF \o V(T2, T1, T9) >>

\* a normal line, a comment and a short record
FileJunk == << <<"v", "n">> \o Sp \o T0 \o Sp \o T0 \o Sp \o T1 \o NL
               \o <<"#">> \o NL \o <<"v">> \o Sp \o T1 \o Sp \o T1 \o NL >>

\* a record whose y does not parse
FileBadY == << V(T1, TAbc, T3) \o NL >>

\* a record far away from the others
FileFar == << V(TFar, TFar, T1) \o NL >>

\* a record whose z is the literal Infinity
FileInf == << V(T2, T1, TInf) \o NL >>

\* a record whose z lies below the NO_DATA sentinel
FileLow == << V(T1, T0, TLow) \o NL >>

\* two records of one cell
FilePair == << V(T2, T2, T3) \o NL \o V(T2, T2, T9) \o NL >>

FilePool == {FileCorners, FileMid, FileJunk, FileBadY, FileFar, FileInf, FileLow, FilePair}

\* the files that follow the first file of a list
FollowPool == {FilePair, FileFar, FileLow}

\* longest file list
MaxFiles == 2

\* largest grid spacing
MaxGridSize == 2

GridSizes == 1..MaxGridSize

Origins == {[x |-> I(0), y |-> I(0), z |-> I(0)], [x |-> I(1), y |-> I(0), z |-> I(5)]}

\* the lists of n files: any file of the pool, then files of FollowPool
RECURSIVE ListsOf(_)
ListsOf(n) ==
  IF n = 0 THEN {<<>>}
  ELSE IF n = 1 THEN {<<f>> : f \in FilePool}
  ELSE {Append(l, f) : l \in ListsOf(n - 1), f \in FollowPool}

FileLists == UNION {ListsOf(n) : n \in 0..MaxFiles}

\* ------------------------------------------------------------------------
\* The rasterizer: one call of processFoldersToGrid
\* ------------------------------------------------------------------------
InitGridifier ==
  /\ files \in FileLists
  /\ origin \in Origins
  /\ gridSize \in GridSizes
  /\ pc = "scan"
  /\ fileIdx = 1
  /\ bounds = EmptyBounds
  /\ cols = I(0)
  /\ rows = I(0)
  /\ heights = <<>>
  /\ allocs = 0
  /\ ret = Undefined
  /\ err = "none"
  /\ IdleVolume
  /\ IdleFill
  /\ IdleReader
  /\ IdleApp

NextGridifier == ScanFile \/ InitGridStep \/ PopulateFile \/ FillAndReturn

SpecGridifier == InitGridifier /\ [][NextGridifier]_vars

\* ------------------------------------------------------------------------
\* fillHoles on its own: one call on a grid of any heights
\* ------------------------------------------------------------------------
\* largest grid passed to fillHoles
MaxFillRows == 3

MaxFillCols == 3

\* most holes of a grid
MaxHoles == 3

\* number of distinct levels of a surface
Levels == 3

\* the valid heights of the grids
FillHeights == {I(2 * l) : l \in 0..(Levels - 1)}

\* a surface of n cells without holes: level (a * k + b) mod Levels in cell k
Surface(n, a, b) == [k \in 1..n |-> I(2 * ((a * k + b) % Levels))]

\* a surface with no data in the cells of holes
Holed(hs, holes) == [k \in 1..Len(hs) |-> IF k \in holes THEN NO_DATA ELSE hs[k]]

\* the sets of at most m of the cells 1..n
RECURSIVE HoleSets(_, _)
HoleSets(n, m) ==
  IF m = 0 THEN {{}}
  ELSE LET less == HoleSets(n, m - 1) IN
       less \cup {h \cup {k} : h \in less, k \in 1..n}

\* the number of leading cells of a grid of n cells among which the holes lie
HoleSpan(n) == IF n < MaxFillCols + MaxHoles THEN n ELSE MaxFillCols + MaxHoles

\* the grids of n cells: flat and stepped surfaces with at most MaxHoles holes
FillGrids(n) ==
  {Holed(Surface(n, a, b), holes) :
     a \in 0..(Levels - 1), b \in 0..(Levels - 1),
     holes \in HoleSets(HoleSpan(n), MaxHoles)}

InitFill ==
  /\ fhRows \in 1..MaxFillRows
  /\ fhCols \in 1..MaxFillCols
  /\ fhEntry \in FillGrids(fhRows * fhCols)
  /\ fhGrid = fhEntry
  /\ fhpc = "call"
  /\ IdleGridifier
  /\ IdleVolume
  /\ IdleReader
  /\ IdleApp

NextFill == FillHoles

SpecFill == InitFill /\ [][NextFill]_vars

\* ------------------------------------------------------------------------
\* The volume engine: one call of VolumeCalculator.calculate
\* ------------------------------------------------------------------------
\* the extent of the first grid is [0, VolWidth] x [0, VolHeight]
VolWidth == 2

VolHeight == 1

\* largest amount by which the second grid is raised
MaxRaise == 2


\* the extent of a grid whose lower left corner is (minX_, minY_)
Extent(minX_, minY_) ==
  [minX |-> I(minX_), minY |-> I(minY_),
   maxX |-> I(minX_ + VolWidth), maxY |-> I(minY_ + VolHeight)]

\* a GridData as processFoldersToGrid returns it for an extent
RasterGrid(minX_, minY_, gridSize_, heights_) ==
  GridData(Extent(minX_, minY_),
           NAdd(MathCeil(Fin(VolHeight, gridSize_)), I(1)),
           NAdd(MathCeil(Fin(VolWidth, gridSize_)), I(1)),
           gridSize_, heights_)

\* the same GridData with the rotation and the anchor that the interface
\* GridData declares
TypedGrid(minX_, minY_, gridSize_, heights_, angle_) ==
  [minX |-> I(minX_), minY |-> I(minY_),
   maxX |-> I(minX_ + VolWidth), maxY |-> I(minY_ + VolHeight),
   rows |-> NAdd(MathCeil(Fin(VolHeight, gridSize_)), I(1)),
   cols |-> NAdd(MathCeil(Fin(VolWidth, gridSize_)), I(1)),
   gridSize |-> gridSize_, heights |-> heights_,
   rotationAngle |-> I(angle_), anchor |-> [x |-> I(0), y |-> I(0), z |-> I(0)]]

\* the frames of a pair of grids: as rasterized, and typed with the angle 0
\* or a quarter turn
Frames == {"raster", "north", "turned"}

GridIn(frame, minX_, minY_, heights_) ==
  CASE frame = "raster" -> RasterGrid(minX_, minY_, 1, heights_)
    [] frame = "north" -> TypedGrid(minX_, minY_, 1, heights_, 0)
    [] OTHER -> TypedGrid(minX_, minY_, 1, heights_, 1)

VolCells == (VolHeight + 1) * (VolWidth + 1)

\* the whole surfaces of a grid: flat and stepped, at every level
Surfaces == {Surface(VolCells, a, b) : a \in 0..1, b \in 0..(Levels - 1)}

\* the heights of the first grid: flat and stepped surfaces, whole, with one
\* hole in the first row, and without any data
FirstHeights ==
  {Holed(hs, holes) : hs \in Surfaces,
                      holes \in {{}} \cup {{j} : j \in 1..(VolWidth + 1)} \cup {1..VolCells}}

\* the heights of the first grid of a comparison inside a boundary: the
\* hole, if any, in the first cell
FirstHeightsInside ==
  {Holed(hs, holes) : hs \in Surfaces, holes \in {{}, {1}, 1..VolCells}}

\* the second grid lies D higher wherever the first has a height
Raise(hs, D) == [k \in 1..Len(hs) |-> IF hs[k] = NO_DATA THEN NO_DATA ELSE NAdd(hs[k], I(D))]

\* every entry of the second grid is the entry of the first plus D
RaiseAll(hs, D) == [k \in 1..Len(hs) |-> NAdd(hs[k], I(D))]

\* the second grid has no data in cell j
Punch(hs, j) == [hs EXCEPT ![j] = NO_DATA]

\* the second grid lies D higher in the first cell and D lower in the second
Tilt(hs, D) ==
  [k \in 1..Len(hs) |->
     IF hs[k] = NO_DATA \/ k > 2 THEN hs[k]
     ELSE IF k = 1 THEN NAdd(hs[k], I(D)) ELSE NSub(hs[k], I(D))]

\* a height difference of 2^-7, which a Float32Array holds exactly
Slight == Fin(1, 128)

\* the second grid lies slightly higher wherever the first has a height
Nudge(hs) == [k \in 1..Len(hs) |-> IF hs[k] = NO_DATA THEN NO_DATA ELSE NAdd(hs[k], Slight)]

\* the heights of the second grid, given those of the first
SecondHeights(hs) ==
  {hs, Nudge(hs)} \cup {Tilt(hs, D) : D \in 1..MaxRaise} \cup {Raise(hs, D) : D \in 1..MaxRaise} \cup {RaiseAll(hs, D) : D \in 1..MaxRaise}
       \cup {Punch(hs, j) : j \in 1..(VolWidth + 1)}
       \cup {Punch(Raise(hs, D), 1) : D \in 1..MaxRaise}

\* the heights of the second grid of a comparison inside a boundary
SecondHeightsInside(hs) ==
  {hs, Punch(hs, 2), Tilt(hs, 1)} \cup {Raise(hs, D) : D \in 1..MaxRaise}
                     \cup {Punch(Raise(hs, D), 1) : D \in 1..MaxRaise}

\* where the second grid lies relative to the first: on it, overlapping,
\* touching, and apart in one or in both directions
Shifts == {<<1, 0>>, <<VolWidth, 0>>, <<VolWidth + 1, 0>>, <<VolWidth + 1, VolHeight + 1>>}

BoundaryPoint(id_, x_, y_) == [id |-> id_, x |-> I(x_), y |-> I(y_)]

\* counter-clockwise triangles
Triangle == Boundary(<<BoundaryPoint("1", 0, 0), BoundaryPoint("2", 2, 0), BoundaryPoint("3", 0, 2)>>)

TriangleTurned == Boundary(<<BoundaryPoint("1", 0, 0), BoundaryPoint("2", 0, 2), BoundaryPoint("3", -2, 0)>>)

\* counter-clockwise triangles that lie inside the extent of a grid
Wedge == Boundary(<<BoundaryPoint("1", 0, 0), BoundaryPoint("2", 2, 0), BoundaryPoint("3", 0, 1)>>)

WedgeTurned == Boundary(<<BoundaryPoint("1", 0, 0), BoundaryPoint("2", 0, 2), BoundaryPoint("3", -1, 0)>>)

\* the first triangle with its second vertex given twice
TriangleRepeated ==
  Boundary(<<BoundaryPoint("1", 0, 0), BoundaryPoint("2", 2, 0), BoundaryPoint("3", 2, 0),
             BoundaryPoint("4", 0, 2)>>)

Mesh(name_, grid_) == [name |-> name_, origin |-> [x |-> I(0), y |-> I(0), z |-> I(0)], grid |-> grid_]

\* both meshes rasterized, no boundary
InitBothGrids ==
  \E hs \in FirstHeights, frame \in {"raster", "north"} :
    /\ boundary = Null
    /\ mesh1 = Mesh("m1", GridIn(frame, 0, 0, hs))
    /\ \/ \E hs2 \in SecondHeights(hs) : mesh2 = Mesh("m2", GridIn(frame, 0, 0, hs2))
       \/ \E sh \in Shifts : mesh2 = Mesh("m2", GridIn(frame, sh[1], sh[2], hs))

\* both meshes rasterized over the same extent, a boundary without points
InitEmptyBoundary ==
  \E hs \in FirstHeightsInside, frame \in {"raster", "north"} :
    /\ boundary = Boundary(<<>>)
    /\ mesh1 = Mesh("m1", GridIn(frame, 0, 0, hs))
    /\ \E hs2 \in SecondHeightsInside(hs) : mesh2 = Mesh("m2", GridIn(frame, 0, 0, hs2))

\* both meshes rasterized over the same extent, a boundary of three points
InitInsideBoundary ==
  \E hs \in FirstHeightsInside, frame \in Frames :
    /\ boundary \in {Triangle, TriangleTurned, Wedge, WedgeTurned}
    /\ mesh1 = Mesh("m1", GridIn(frame, 0, 0, hs))
    /\ \E hs2 \in SecondHeightsInside(hs) : mesh2 = Mesh("m2", GridIn(frame, 0, 0, hs2))

\* whole surfaces, the second one raised, inside a boundary with a repeated
\* vertex
InitRepeatedVertex ==
  \E hs \in Surfaces, frame \in {"north", "turned"} :
    /\ boundary = TriangleRepeated
    /\ mesh1 = Mesh("m1", GridIn(frame, 0, 0, hs))
    /\ mesh2 = Mesh("m2", GridIn(frame, 0, 0, Raise(hs, 1)))

\* a mesh that was not rasterized
InitMissingGrid ==
  /\ boundary \in {Null, Triangle}
  /\ \E frame \in Frames :
       LET g == GridIn(frame, 0, 0, Surface(VolCells, 0, 0)) IN
       /\ mesh1 \in {Mesh("m1", Undefined), Mesh("m1", g)}
       /\ mesh2 \in {Mesh("m2", Undefined), Mesh("m2", g)}
       /\ mesh1.grid = Undefined \/ mesh2.grid = Undefined

\* the points (x, y) of the square 0..2 x 0..2 at height 0, delivered one record a chunk
ExampleFlat ==
  << V(T0, T0, T0) \o NL, V(T1, T0, T0) \o NL, V(T2, T0, T0) \o NL,
     V(T0, T1, T0) \o NL, V(T1, T1, T0) \o NL, V(T2, T1, T0) \o NL,
     V(T0, T2, T0) \o NL, V(T1, T2, T0) \o NL, V(T2, T2, T0) \o NL >>

\* the same points at height 1, without the one in the centre
ExampleRing ==
  << V(T0, T0, T1) \o NL, V(T1, T0, T1) \o NL, V(T2, T0, T1) \o NL,
     V(T0, T1, T1) \o NL, V(T2, T1, T1) \o NL,
     V(T0, T2, T1) \o NL, V(T1, T2, T1) \o NL, V(T2, T2, T1) \o NL >>

\* the grid that processFoldersToGrid returns for one file at gridSize 1
ExampleGrid(file) ==
  processFoldersToGrid(<<file>>, [x |-> I(0), y |-> I(0), z |-> I(0)], 1).grid

\* two rasterized epochs of a 3 x 3 grid, the second with its centre filled
\* by fillHoles
InitExample ==
  /\ boundary = Null
  /\ mesh1 = Mesh("m1", ExampleGrid(ExampleFlat))
  /\ mesh2 = Mesh("m2", ExampleGrid(ExampleRing))

InitVolume ==
  /\ \/ InitBothGrids \/ InitEmptyBoundary \/ InitInsideBoundary \/ InitRepeatedVertex
     \/ InitMissingGrid \/ InitExample
  /\ vpc = "call"
  /\ result = Undefined
  /\ verr = "none"
  /\ IdleGridifier
  /\ IdleFill
  /\ IdleReader
  /\ IdleApp

NextVolume == Calculate

SpecVolume == InitVolume /\ [][NextVolume]_vars

\* ------------------------------------------------------------------------
\* readFileByLines on its own: one file, delivered in chunks
\* ------------------------------------------------------------------------
\* longest file text
MaxText == 4

\* the characters of the texts: a letter and the two of a line terminator
TextChars == {"v", "\r", "\n"}

Texts == UNION {[1..n -> TextChars] : n \in 0..MaxText}

\* the ways of cutting a text into chunks that are not empty
RECURSIVE Chunkings(_)
Chunkings(text) ==
  IF Len(text) = 0 THEN {<<>>}
  ELSE UNION {{<<SubSeq(text, 1, k)>> \o rest :
                 rest \in Chunkings(SubSeq(text, k + 1, Len(text)))} : k \in 1..Len(text)}

InitReader ==
  /\ \E text \in Texts : rdChunks \in Chunkings(text)
  /\ rdpc = "read"
  /\ rdIdx = 1
  /\ rdPartial = <<>>
  /\ rdLines = <<>>
  /\ IdleGridifier
  /\ IdleVolume
  /\ IdleFill
  /\ IdleApp

NextReader == ReadChunk \/ ReadDone

SpecReader == InitReader /\ [][NextReader]_vars

\* ------------------------------------------------------------------------
\* App (src/App.tsx): the state of the component, the user's actions and
\* the asynchronous runs of processFiles and runAnalysis
\* ------------------------------------------------------------------------
\* useState(3.0)
DefaultGridSize == 3

\* the position that the grid size slider is moved to
OtherGridSize == 1

SliderSizes == {DefaultGridSize, OtherGridSize}

\* runs of processFiles and runAnalysis that can be pending at once
MaxTasks == 2

\* actions of the user in one session
MaxActs == 3

\* the folders the user can select: each a list of files
FolderCorners == <<FileCorners>>
FolderPair == <<FilePair>>
FolderJunk == <<FileJunk>>

Folders == {FolderCorners, FolderPair, FolderJunk}

\* FolderParser.parseMetadataOnly of a folder without metadata.xml
DefaultOrigin == [x |-> I(0), y |-> I(0), z |-> I(0)]

\* what an earlier session left in the store
StoredGrid(folder, size) == processFoldersToGrid(folder, DefaultOrigin, size).grid

EmptyCache == [grid1 |-> Null, grid2 |-> Null]

Caches ==
  {EmptyCache,
   [grid1 |-> StoredGrid(FolderCorners, OtherGridSize), grid2 |-> Null],
   [grid1 |-> StoredGrid(FolderCorners, DefaultGridSize),
    grid2 |-> StoredGrid(FolderPair, DefaultGridSize)],
   [grid1 |-> StoredGrid(FolderCorners, OtherGridSize),
    grid2 |-> StoredGrid(FolderPair, DefaultGridSize)]}

\* the state after the first render
InitApp ==
  /\ appMesh1 = Null
  /\ appMesh2 = Null
  /\ appBoundary = Null
  /\ files1 = <<>>
  /\ files2 = <<>>
  /\ appGridSize = DefaultGridSize
  /\ appResult = Null
  /\ calculating = FALSE
  /\ error = Null
  /\ tasks = [t \in 1..MaxTasks |-> NoTask]
  /\ lastCall = Null
  /\ cache \in Caches
  /\ cachePc = "loading"
  /\ acts = 0
  /\ IdleGridifier
  /\ IdleVolume
  /\ IdleFill
  /\ IdleReader

\* setError(err.message)
ErrorMessage(e) == [message |-> e]

\* an action of the user
UserAct == acts < MaxActs /\ acts' = acts + 1

HasFreeSlot == \E t \in 1..MaxTasks : tasks[t] = NoTask

FreeSlot == CHOOSE t \in 1..MaxTasks : tasks[t] = NoTask /\ \A u \in 1..(t - 1) : tasks[u] # NoTask

\* the effect loadCache: the grids of the store become mesh1 and mesh2
LoadCache ==
  /\ cachePc = "loading"
  /\ cachePc' = "loaded"
  /\ appMesh1' = IF cache.grid1 # Null THEN Mesh("cached1", cache.grid1) ELSE appMesh1
  /\ appMesh2' = IF cache.grid2 # Null THEN Mesh("cached2", cache.grid2) ELSE appMesh2
  /\ UNCHANGED <<appBoundary, files1, files2, appGridSize, appResult, calculating, error,
                 tasks, lastCall, cache, acts>>
  /\ UNCHANGED <<gvars, vvars, fvars, rvars>>

\* handleStandardInput and selectFolder for epoch 1: the folder picker can
\* deliver a folder without files, the file input cannot
SelectFolder1(f) ==
  /\ UserAct
  /\ files1' = f
  /\ appMesh1' = Null
  /\ error' = Null
  /\ appResult' = Null
  /\ UNCHANGED <<appMesh2, appBoundary, files2, appGridSize, calculating, tasks, lastCall,
                 cache, cachePc>>
  /\ UNCHANGED <<gvars, vvars, fvars, rvars>>

\* handleStandardInput and selectFolder for epoch 2
SelectFolder2(f) ==
  /\ UserAct
  /\ files2' = f
  /\ appMesh2' = Null
  /\ error' = Null
  /\ appResult' = Null
  /\ UNCHANGED <<appMesh1, appBoundary, files1, appGridSize, calculating, tasks, lastCall,
                 cache, cachePc>>
  /\ UNCHANGED <<gvars, vvars, fvars, rvars>>

\* handleBoundaryInput: the points of the file, or the message of a file
\* that cannot be read
HandleBoundaryInput(b) ==
  /\ UserAct
  /\ \/ appBoundary' = b /\ UNCHANGED error
     \/ error' = ErrorMessage("BoundaryUnreadable") /\ UNCHANGED appBoundary
  /\ UNCHANGED <<appMesh1, appMesh2, files1, files2, appGridSize, appResult, calculating,
                 tasks, lastCall, cache, cachePc>>
  /\ UNCHANGED <<gvars, vvars, fvars, rvars>>

\* onGridSizeChange={setGridSize}
SetGridSize(s) ==
  /\ UserAct
  /\ appGridSize' = s
  /\ UNCHANGED <<appMesh1, appMesh2, appBoundary, files1, files2, appResult, calculating,
                 error, tasks, lastCall, cache, cachePc>>
  /\ UNCHANGED <<gvars, vvars, fvars, rvars>>

\* the button of processFiles is rendered
ProcessButton == Len(files1) > 0 \/ Len(files2) > 0

\* the button of runAnalysis is rendered
AnalysisButton == appMesh1 # Null /\ appMesh2 # Null /\ Len(files1) = 0 /\ Len(files2) = 0

\* what Gridifier.processFoldersToGrid(objs, meta, gridSize, setStatus)
\* settles with for the files of one epoch: a function of the files and the
\* grid size of the closure alone; no call for an epoch without files
Rasterization(fs, size) ==
  IF Len(fs) > 0 THEN processFoldersToGrid(fs, DefaultOrigin, size) ELSE Null

\* processFiles up to its first await
ClickProcessFiles ==
  /\ UserAct
  /\ HasFreeSlot
  /\ ProcessButton
  /\ calculating' = TRUE
  /\ error' = Null
  /\ tasks' = [tasks EXCEPT ![FreeSlot] =
                 [kind |-> "processFiles",
                  pc |-> IF Len(files1) > 0 THEN "files1" ELSE "files2",
                  files1 |-> files1, files2 |-> files2, gridSize |-> appGridSize,
                  g1 |-> Rasterization(files1, appGridSize),
                  g2 |-> Rasterization(files2, appGridSize)]]
  /\ UNCHANGED <<appMesh1, appMesh2, appBoundary, files1, files2, appGridSize, appResult,
                 lastCall, cache, cachePc>>
  /\ UNCHANGED <<gvars, vvars, fvars, rvars>>

\* variant: no finally block
NoFinally(c) == c

\* finally { setCalculating(false) }
Finally(c) == FALSE

\* processFiles: the rasterization of one epoch settles, with g1 or g2; on
\* a rejection catch and finally run, on the last epoch finally runs
ProcessStep(t) ==
  /\ tasks[t].kind = "processFiles"
  /\ LET task == tasks[t]
         first == task.pc = "files1"
         out == IF first THEN task.g1 ELSE task.g2
         more == first /\ Len(task.files2) > 0
     IN  IF out.err # "none"
         THEN /\ error' = ErrorMessage(out.err)
              /\ calculating' = Finally(calculating)
              /\ tasks' = [tasks EXCEPT ![t] = NoTask]
              /\ UNCHANGED <<appMesh1, appMesh2, files1, files2, cache>>
         ELSE /\ IF first
                 THEN /\ cache' = [cache EXCEPT !.grid1 = out.grid]
                      /\ appMesh1' = Mesh("epoch1", out.grid)
                      /\ files1' = <<>>
                      /\ UNCHANGED <<appMesh2, files2>>
                 ELSE /\ cache' = [cache EXCEPT !.grid2 = out.grid]
                      /\ appMesh2' = Mesh("epoch2", out.grid)
                      /\ files2' = <<>>
                      /\ UNCHANGED <<appMesh1, files1>>
              /\ IF more
                 THEN /\ tasks' = [tasks EXCEPT ![t].pc = "files2"]
                      /\ UNCHANGED calculating
                 ELSE /\ tasks' = [tasks EXCEPT ![t] = NoTask]
                      /\ calculating' = Finally(calculating)
              /\ UNCHANGED error
  /\ UNCHANGED <<appBoundary, appGridSize, appResult, lastCall, cachePc, acts>>
  /\ UNCHANGED <<gvars, vvars, fvars, rvars>>

\* runAnalysis up to setTimeout: the callback keeps the meshes and the grid
\* size of the render it was created in
ClickRunAnalysis ==
  /\ UserAct
  /\ HasFreeSlot
  /\ AnalysisButton
  /\ appMesh1.grid # Undefined /\ appMesh2.grid # Undefined
  /\ calculating' = TRUE
  /\ tasks' = [tasks EXCEPT ![FreeSlot] =
                 [kind |-> "runAnalysis", pc |-> "timer",
                  mesh1 |-> appMesh1, mesh2 |-> appMesh2, gridSize |-> appGridSize]]
  /\ UNCHANGED <<appMesh1, appMesh2, appBoundary, files1, files2, appGridSize, appResult,
                 error, lastCall, cache, cachePc>>
  /\ UNCHANGED <<gvars, vvars, fvars, rvars>>

\* the third argument of VolumeCalculator.calculate(mesh1, mesh2, gridSize),
\* which calculate takes as its boundary
ThirdArgument(task) == NumberValue(I(task.gridSize))

\* the callback of setTimeout in runAnalysis
TimerFires(t) ==
  /\ tasks[t].kind = "runAnalysis"
  /\ LET task == tasks[t]
         out == calculate(task.mesh1, task.mesh2, ThirdArgument(task))
     IN  /\ lastCall' = [mesh1 |-> task.mesh1, mesh2 |-> task.mesh2,
                         boundary |-> ThirdArgument(task), imported |-> appBoundary,
                         err |-> out.err]
         /\ IF out.err = "none"
            THEN appResult' = out.result /\ UNCHANGED error
            ELSE error' = ErrorMessage(out.err) /\ UNCHANGED appResult
  /\ calculating' = Finally(calculating)
  /\ tasks' = [tasks EXCEPT ![t] = NoTask]
  /\ UNCHANGED <<appMesh1, appMesh2, appBoundary, files1, files2, appGridSize, cache,
                 cachePc, acts>>
  /\ UNCHANGED <<gvars, vvars, fvars, rvars>>

NextApp ==
  \/ LoadCache
  \/ \E f \in Folders \cup {<<>>} : SelectFolder1(f)
  \/ \E f \in Folders \cup {<<>>} : SelectFolder2(f)
  \/ HandleBoundaryInput(Triangle)
  \/ \E s \in SliderSizes : SetGridSize(s)
  \/ ClickProcessFiles
  \/ \E t \in 1..MaxTasks : ProcessStep(t)
  \/ ClickRunAnalysis
  \/ \E t \in 1..MaxTasks : TimerFires(t)

SpecApp == InitApp /\ [][NextApp]_vars

\* a pending rasterization settles and a pending timer fires
SpecAppFair ==
  /\ SpecApp
  /\ \A t \in 1..MaxTasks : WF_vars(ProcessStep(t)) /\ WF_vars(TimerFires(t))

\* ------------------------------------------------------------------------
\* Properties of the rasterizer
\* ------------------------------------------------------------------------
\* both passes are over: the binning pass has run over every file
Binned == pc = "populate" /\ fileIdx > Len(files)

\* the first pass is over
Scanned == pc # "scan"

\* every line that readFileByLines delivers from any of the files
AllLines(fs) == UNION {{readFileByLines(fs[i])[k] : k \in 1..Len(readFileByLines(fs[i]))} : i \in 1..Len(fs)}

\* a vertex record: a 'v' line with at least three coordinates
IsRecord(line) == StartsWithV(line) /\ Len(SplitWs(line)) >= 4

\* a valid vertex record: all three coordinates parse as numbers
IsValidRecord(line) ==
  /\ IsRecord(line)
  /\ \A k \in 2..4 : ~IsNaN(parseFloat(SplitWs(line)[k]))

RecordZ(line) == NAdd(parseFloat(SplitWs(line)[4]), origin.z)

\* the index into heights of the cell that the binning pass computes for a
\* record, -1 when the computed cell lies outside the grid
RecordCell(line) ==
  LET c == CellIndex(NAdd(parseFloat(SplitWs(line)[2]), origin.x), bounds.minX, gridSize)
      r == CellIndex(NAdd(parseFloat(SplitWs(line)[3]), origin.y), bounds.minY, gridSize)
  IN  IF IsFin(r) /\ IsFin(c) /\ IsFin(rows) /\ IsFin(cols)
         /\ r[2] >= 0 /\ r[2] < rows[2] /\ c[2] >= 0 /\ c[2] < cols[2]
      THEN r[2] * cols[2] + c[2]
      ELSE -1

\* the z of the records that fall into cell idx and whose z is a number
CellZs(idx) ==
  {RecordZ(line) : line \in {l \in AllLines(files) :
      IsRecord(l) /\ ~IsNaN(RecordZ(l)) /\ RecordCell(l) = idx}}

NMaxOf(S) == CHOOSE m \in S : \A z \in S : NLe(z, m)

\* C5: when rows*cols exceeds the cell-count ceiling the call fails with the
\* grid-too-large error, and whenever it fails with that error no heights
\* array has been allocated and no GridData is returned.
C5_CeilingBeforeAllocation ==
  /\ (Scanned /\ err # "NoData" /\ NGt(NMul(cols, rows), I(MaxCells)))
       => err = "GridTooLarge"
  /\ err = "GridTooLarge" => (allocs = 0 /\ heights = <<>> /\ ret = Undefined)

C5_Witness == err = "GridTooLarge" /\ NGt(NMul(cols, rows), I(MaxCells)) /\ pc = "error"

\* C6: the call fails with the no-data error exactly when the files hold no
\* valid vertex record, and then nothing was allocated and the binning pass
\* did not run.
C6_NoDataIffNoValidRecord ==
  Scanned =>
    /\ (err = "NoData") <=> (\A line \in AllLines(files) : ~IsValidRecord(line))
    /\ err = "NoData" => (allocs = 0 /\ pc = "error" /\ ret = Undefined)

\* C7: a returned GridData has rows*cols heights, each of them NO_DATA or a
\* finite number; the same holds of the heights array between binning and
\* hole filling.
C7_HeightsFinite ==
  (Binned \/ pc = "done") =>
    /\ IsFin(rows) /\ IsFin(cols) /\ Len(heights) = rows[2] * cols[2]
    /\ \A k \in 1..Len(heights) : IsFin(heights[k])
    /\ pc = "done" => ret.heights = heights

\* C8 as stated: after binning, a cell holds the maximum z of the records
\* that fall into it, and NO_DATA if there is none.
C8_CellHoldsMaxZ ==
  Binned => \A k \in 1..Len(heights) :
    heights[k] = IF CellZs(k - 1) = {} THEN NO_DATA ELSE NMaxOf(CellZs(k - 1))

\* C8 amended: after binning, a cell holds the maximum z of the records that
\* fall into it and lie above NO_DATA, and NO_DATA if there is none.
C8_CellHoldsMaxZAboveNoData ==
  Binned => \A k \in 1..Len(heights) :
    LET zs == {z \in CellZs(k - 1) : NGt(z, NO_DATA)} IN
    heights[k] = IF zs = {} THEN NO_DATA ELSE NMaxOf(zs)

\* a cell got two different heights and holds the greater one
C8_Witness ==
  /\ Binned
  /\ \E k \in 1..Len(heights) :
       /\ Cardinality({z \in CellZs(k - 1) : NGt(z, NO_DATA)}) >= 2
       /\ heights[k] = NMaxOf(CellZs(k - 1))

\* permutations of 1..n
Perms(n) == {p \in [1..n -> 1..n] : \A i, j \in 1..n : p[i] = p[j] => i = j}

RECURSIVE JoinLines(_, _)
JoinLines(lines, i) ==
  IF i > Len(lines) THEN <<>> ELSE lines[i] \o NL \o JoinLines(lines, i + 1)

\* the files that hold the lines of file f in some order
LineOrders(f) ==
  LET lines == readFileByLines(f) IN
  {<<JoinLines([i \in 1..Len(lines) |-> lines[p[i]]], 1)>> : p \in Perms(Len(lines))}

\* the file lists that hold the files of fs in some order, each with its
\* lines in some order
Reorderings(fs) ==
  LET n == Len(fs) IN
  {[i \in 1..n |-> g[p[i]]] :
     p \in Perms(n),
     g \in {h \in [1..n -> UNION {LineOrders(fs[i]) : i \in 1..n}] :
              \A i \in 1..n : h[i] \in LineOrders(fs[i])}}

\* C9: the outcome of rasterizing is the same for every order of the files
\* and every order of the records within them.
C9_OrderIndependent ==
  pc \in {"done", "error"} =>
    \A fs \in Reorderings(files) :
      processFoldersToGrid(fs, origin, gridSize) = [err |-> err, grid |-> ret]

\* a grid was returned from two different files, one of which puts two
\* records into the same cell
C9_Witness ==
  /\ pc = "done"
  /\ Len(files) = 2 /\ files[1] # files[2]
  /\ \E k \in 1..Len(heights) : Cardinality(CellZs(k - 1)) >= 2

\* ------------------------------------------------------------------------
\* Properties of fillHoles (SpecFill)
\* ------------------------------------------------------------------------
\* the cells of g that hold NO_DATA
HoleCells(g) == {k \in 1..Len(g) : g[k] = NO_DATA}

\* the cells around cell k of a grid with cols_ columns, k not on the border
Around(k, cols_) ==
  {k - cols_ - 1, k - cols_, k - cols_ + 1, k - 1, k + 1, k + cols_ - 1, k + cols_, k + cols_ + 1}

\* cell k is not on the border of the grid on which fillHoles was called
InteriorCell(k) ==
  LET r == (k - 1) \div fhCols
      c == (k - 1) % fhCols
  IN  r >= 1 /\ r <= fhRows - 2 /\ c >= 1 /\ c <= fhCols - 2

\* on entry cell k is the only hole and its 8 neighbours all hold v
LoneHole(k, v) ==
  /\ HoleCells(fhEntry) = {k}
  /\ InteriorCell(k)
  /\ \A n \in Around(k, fhCols) : fhEntry[n] = v

\* C10: fillHoles on a grid with exactly one NO_DATA cell whose 8 neighbours
\* all hold the same value v sets that cell to exactly v
C10_LoneHoleFilledWithNeighbourValue ==
  fhpc = "returned" =>
    \A k \in 1..Len(fhEntry) : \A v \in FillHeights \ {NO_DATA} :
      LoneHole(k, v) => fhGrid[k] = v

\* a call has returned on a grid whose only hole is surrounded by cells of
\* height 2
C10_Witness ==
  /\ fhpc = "returned"
  /\ \E k \in 1..Len(fhEntry) : LoneHole(k, I(2)) /\ fhGrid[k] = I(2)

\* ------------------------------------------------------------------------
\* Properties of the volume engine (SpecVolume)
\* ------------------------------------------------------------------------
\* both meshes passed to calculate carry a grid
BothRasterized == mesh1.grid # Undefined /\ mesh2.grid # Undefined

\* a boundary with at least one point is passed
HasBoundary == boundary # Null /\ Len(boundary.points) > 0

\* the boundary, if any, can be brought into the frame of grid1
FrameDefined == HasBoundary => HasProperty(mesh1.grid, "anchor")

SameExtent ==
  /\ mesh1.grid.minX = mesh2.grid.minX /\ mesh1.grid.maxX = mesh2.grid.maxX
  /\ mesh1.grid.minY = mesh2.grid.minY /\ mesh1.grid.maxY = mesh2.grid.maxY
  /\ mesh1.grid.gridSize = mesh2.grid.gridSize

RaisedBy(D) ==
  /\ Len(mesh2.grid.heights) = Len(mesh1.grid.heights)
  /\ \A k \in 1..Len(mesh2.grid.heights) :
       NGt(mesh2.grid.heights[k], NO_DATA) =>
         mesh2.grid.heights[k] = NAdd(mesh1.grid.heights[k], I(D))

NoOverlap ==
  \/ NLe(MathMin(mesh1.grid.maxX, mesh2.grid.maxX), MathMax(mesh1.grid.minX, mesh2.grid.minX))
  \/ NLe(MathMin(mesh1.grid.maxY, mesh2.grid.maxY), MathMax(mesh1.grid.minY, mesh2.grid.minY))

\* C3: for two grids whose extents have an empty or degenerate intersection
\* the volume computation fails with a no-overlap error and returns no
\* VolumeResult
C3_NoOverlapFails ==
  (vpc = "returned" /\ BothRasterized /\ NoOverlap) =>
    verr = "NoOverlap" /\ result = Undefined

\* C4: if either mesh has no grid the call fails and produces no
\* VolumeResult, with the error that calculate itself raises:
\* calculateFromGrids is entered only when both grids are present
C4_MissingGridFails ==
  vpc = "returned" =>
    /\ ~BothRasterized => (verr = "NotRasterized" /\ result = Undefined)
    /\ verr # "NotRasterized" => BothRasterized

\* a call with only the second mesh rasterized has failed
C4_Witness ==
  /\ vpc = "returned"
  /\ mesh1.grid = Undefined /\ mesh2.grid # Undefined
  /\ verr = "NotRasterized" /\ result = Undefined

\* the two grids of the example: 3 rows and 3 columns at gridSize 1 over the
\* same extent, the first all 0, the second all 1
ExampleGrids ==
  /\ BothRasterized /\ SameExtent
  /\ mesh1.grid.gridSize = 1
  /\ mesh1.grid.rows = I(3) /\ mesh1.grid.cols = I(3)
  /\ mesh2.grid.rows = I(3) /\ mesh2.grid.cols = I(3)
  /\ Len(mesh1.grid.heights) = 9 /\ Len(mesh2.grid.heights) = 9
  /\ \A k \in 1..9 : mesh1.grid.heights[k] = I(0) /\ mesh2.grid.heights[k] = I(1)

\* C11: for the two 3 x 3 grids of the example (gridSize 1, the first all 0,
\* the second all 1 after hole filling) the volume computation integrates
\* all 9 cells and returns fillVolume = 9 and cutVolume = 0
C11_ExampleFillsNine ==
  (vpc = "returned" /\ ExampleGrids /\ boundary = Null) =>
    /\ verr = "none"
    /\ result.area = I(9)
    /\ result.fillVolume = I(9)
    /\ result.cutVolume = I(0)

\* ------------------------------------------------------------------------
\* Further properties of the rasterizer (SpecGridifier)
\* ------------------------------------------------------------------------
\* C12: every GridData returned satisfies cols = ceil((maxX - minX) /
\* gridSize) and rows = ceil((maxY - minY) / gridSize) for its own extent and
\* gridSize
C12_DimensionsAreCeil ==
  pc = "done" =>
    /\ ret.cols = MathCeil(NDiv(NSub(ret.maxX, ret.minX), I(ret.gridSize)))
    /\ ret.rows = MathCeil(NDiv(NSub(ret.maxY, ret.minY), I(ret.gridSize)))

\* ------------------------------------------------------------------------
\* Properties of readFileByLines (SpecReader)
\* ------------------------------------------------------------------------
\* the text of a file: its chunks joined
RECURSIVE JoinChunks(_, _)
JoinChunks(chunks, i) ==
  IF i > Len(chunks) THEN <<>> ELSE chunks[i] \o JoinChunks(chunks, i + 1)

\* the text cut at every LF, a CR before the LF belonging to the cut; piece
\* by piece from position i on, cur being the piece begun
RECURSIVE LinesOfText(_, _, _)
LinesOfText(text, i, cur) ==
  IF i > Len(text) THEN <<cur>>
  ELSE IF text[i] = "\n"
       THEN <<IF Len(cur) > 0 /\ cur[Len(cur)] = "\r" THEN SubSeq(cur, 1, Len(cur) - 1) ELSE cur>>
            \o LinesOfText(text, i + 1, <<>>)
       ELSE LinesOfText(text, i + 1, Append(cur, text[i]))

\* the non-empty lines of a text
NonEmptyLines(text) == SelectSeq(LinesOfText(text, 1, <<>>), LAMBDA line : Len(line) > 0)

\* C13: whatever the chunks, onLine receives the non-empty lines of the
\* whole text, each once and whole, the last one also without a terminator;
\* this is what the text delivered as one chunk gives
C13_ChunkingIndependent ==
  rdpc = "done" =>
    /\ rdLines = NonEmptyLines(JoinChunks(rdChunks, 1))
    /\ rdLines = readFileByLines(<<JoinChunks(rdChunks, 1)>>)
    /\ rdLines = readFileByLines(rdChunks)

\* a record and a CR LF were both cut by a chunk boundary and one line was
\* delivered
C13_Witness ==
  /\ rdpc = "done"
  /\ rdChunks = << <<"v">>, <<"v", "\r">>, <<"\n">> >>
  /\ rdLines = << <<"v", "v">> >>

\* ------------------------------------------------------------------------
\* Properties of the rasterizer on malformed records (SpecGridifier)
\* ------------------------------------------------------------------------
\* a 'v' line that is short or has a coordinate that does not parse
IsMalformed(line) == StartsWithV(line) /\ ~IsValidRecord(line)

\* the file list fs with line k of file i removed
WithoutLine(fs, i, k) ==
  LET lines == readFileByLines(fs[i])
      kept == [j \in 1..(Len(lines) - 1) |-> IF j < k THEN lines[j] ELSE lines[j + 1]]
  IN  [fs EXCEPT ![i] = <<JoinLines(kept, 1)>>]

\* C14: a malformed or short vertex record does not abort the call and is
\* skipped in both passes: the outcome is the one of the same files without
\* that line
C14_MalformedSkipped ==
  pc \in {"done", "error"} =>
    \A i \in 1..Len(files) : \A k \in 1..Len(readFileByLines(files[i])) :
      IsMalformed(readFileByLines(files[i])[k]) =>
        [err |-> err, grid |-> ret] = processFoldersToGrid(WithoutLine(files, i, k), origin, gridSize)

\* C15: the GridData the rasterizer returns carries rotationAngle = 0 and
\* anchor = origin, the fields calculateFromGrids reads on grid1
C15_ReturnsRotationAndAnchor ==
  pc = "done" =>
    /\ HasProperty(ret, "rotationAngle") /\ ret.rotationAngle = I(0)
    /\ HasProperty(ret, "anchor") /\ ret.anchor = origin

\* ------------------------------------------------------------------------
\* Properties of the cell loop of calculateFromGrids (SpecVolume)
\* ------------------------------------------------------------------------
\* a call of calculate on two rasterized meshes returned a VolumeResult
ResultReturned == vpc = "returned" /\ verr = "none" /\ BothRasterized

\* the cells (r, c) of the overlap, which are the cells of the diffMap
OverlapCells ==
  IF IsFin(result.diffMap.rows) /\ IsFin(result.diffMap.cols)
     /\ result.diffMap.rows[2] > 0 /\ result.diffMap.cols[2] > 0
  THEN (0..(result.diffMap.rows[2] - 1)) \X (0..(result.diffMap.cols[2] - 1))
  ELSE {}

\* the lower left corner of cell (r, c) of the overlap
CellX(c) == NAdd(result.diffMap.minX, I(c * result.gridSize))

CellY(r) == NAdd(result.diffMap.minY, I(r * result.gridSize))

\* the square of cell (r, c)
CellSquare(r, c) ==
  LET gs == I(result.gridSize)
  IN  << Vec2(CellX(c), CellY(r)), Vec2(NAdd(CellX(c), gs), CellY(r)),
         Vec2(NAdd(CellX(c), gs), NAdd(CellY(r), gs)), Vec2(CellX(c), NAdd(CellY(r), gs)) >>

\* the boundary of the call in the local frame of grid1; empty without one
BoundaryInFrame ==
  IF HasBoundary
  THEN SubSeq(LocalBoundary(boundary.points, mesh1.grid), 1, Len(boundary.points))
  ELSE <<>>

\* the effective area of cell (r, c)
CellArea(r, c) ==
  IF Len(BoundaryInFrame) > 0
  THEN getPolygonArea(clipPolygon(CellSquare(r, c), BoundaryInFrame))
  ELSE NMul(I(result.gridSize), I(result.gridSize))

\* the height grid g has at the centre of cell (r, c)
CellHeight(g, r, c) ==
  getHeightFromLocalGrid(g, NAdd(CellX(c), NDiv(I(result.gridSize), I(2))),
                            NAdd(CellY(r), NDiv(I(result.gridSize), I(2))))

\* the lookup of grid1 or of grid2 for cell (r, c) is unresolved
Unresolved(r, c) ==
  \/ CellHeight(mesh1.grid, r, c) = NO_DATA
  \/ CellHeight(mesh2.grid, r, c) = NO_DATA

\* cell (r, c) has an effective area above the threshold and both heights
Integrated(r, c) ==
  /\ ~NLe(CellArea(r, c), MinArea)
  /\ ~NLe(CellHeight(mesh1.grid, r, c), NO_DATA)
  /\ ~NLe(CellHeight(mesh2.grid, r, c), NO_DATA)

\* h2 - h1 of cell (r, c)
CellDiff(r, c) == NSub(CellHeight(mesh2.grid, r, c), CellHeight(mesh1.grid, r, c))

\* the entry of cell (r, c) in the diffMap
DiffEntry(r, c) == result.diffMap.data[r * result.diffMap.cols[2] + c + 1]

\* the sum of F over the cells of S
RECURSIVE SumOver(_, _)
SumOver(F(_, _), S) ==
  IF S = {} THEN I(0)
  ELSE LET p == CHOOSE q \in S : TRUE
       IN  NAdd(F(p[1], p[2]), SumOver(F, S \ {p}))

\* the cells other than the unresolved ones that have an effective area
Resolved == {p \in OverlapCells : ~Unresolved(p[1], p[2]) /\ ~NLe(CellArea(p[1], p[2]), MinArea)}

CellVolume(r, c) == NMul(MathAbs(CellDiff(r, c)), CellArea(r, c))

\* C16: an overlap cell whose lookup in grid1 or in grid2 is unresolved adds
\* nothing to cutVolume, fillVolume or area, which are made up by the other
\* cells alone, and its entry of the diffMap stays 0
C16_UnresolvedCellAddsNothing ==
  ResultReturned =>
    /\ \A p \in OverlapCells : Unresolved(p[1], p[2]) => DiffEntry(p[1], p[2]) = I(0)
    /\ result.area = SumOver(CellArea, Resolved)
    /\ NAdd(result.cutVolume, result.fillVolume) = SumOver(CellVolume, Resolved)

\* a cell with an area and a valid height in grid2 but none in grid1 was
\* left out while another cell was integrated
C16_Witness ==
  /\ ResultReturned
  /\ \E p \in OverlapCells :
       /\ CellHeight(mesh1.grid, p[1], p[2]) = NO_DATA
       /\ NGt(CellHeight(mesh2.grid, p[1], p[2]), NO_DATA)
       /\ NGt(CellArea(p[1], p[2]), MinArea)
       /\ DiffEntry(p[1], p[2]) = I(0)
  /\ NGt(result.area, I(0))
  /\ NGt(result.fillVolume, I(0))

\* the integrated cells, those with diff > 0 and those with diff <= 0
IntegratedCells == {p \in OverlapCells : Integrated(p[1], p[2])}

FillCells == {p \in IntegratedCells : NGt(CellDiff(p[1], p[2]), I(0))}

CutCells == {p \in IntegratedCells : NLe(CellDiff(p[1], p[2]), I(0))}

CellFill(r, c) == NMul(CellDiff(r, c), CellArea(r, c))

\* C17: fillVolume is the sum of diff * effectiveArea over the integrated
\* cells with diff > 0, cutVolume the sum of |diff| * effectiveArea over those
\* with diff <= 0, area the sum of effectiveArea over all integrated cells;
\* cutVolume >= 0, fillVolume >= 0 and netVolume = fillVolume - cutVolume
C17_VolumesAreCellSums ==
  ResultReturned =>
    /\ result.fillVolume = SumOver(CellFill, FillCells)
    /\ result.cutVolume = SumOver(CellVolume, CutCells)
    /\ result.area = SumOver(CellArea, IntegratedCells)
    /\ NGe(result.cutVolume, I(0))
    /\ NGe(result.fillVolume, I(0))
    /\ result.netVolume = NSub(result.fillVolume, result.cutVolume)

\* a result with cut in one cell and fill in another
C17_Witness ==
  /\ ResultReturned
  /\ FillCells # {} /\ CutCells # {}
  /\ NGt(result.fillVolume, I(0)) /\ NGt(result.cutVolume, I(0))
  /\ result.netVolume # I(0)
  /\ result.netVolume = NSub(result.fillVolume, result.cutVolume)

\* the smallest noise threshold the description of the engine names
NoiseThreshold == Fin(1, 100)

\* the height difference of cell (r, c) is not 0 and below the threshold
IsNoise(r, c) ==
  /\ CellDiff(r, c) # I(0)
  /\ NLt(MathAbs(CellDiff(r, c)), NoiseThreshold)

\* C18: a cell whose height difference is not 0 but below the noise
\* threshold is excluded from both cutVolume and fillVolume
C18_NoiseExcluded ==
  ResultReturned =>
    /\ result.fillVolume = SumOver(CellFill, {p \in FillCells : ~IsNoise(p[1], p[2])})
    /\ result.cutVolume = SumOver(CellVolume, {p \in CutCells : ~IsNoise(p[1], p[2])})

\* the bin of grid g that holds the centre of cell (r, c)
BinCol(g, c) ==
  MathFloor(NDiv(NSub(NAdd(CellX(c), NDiv(I(result.gridSize), I(2))), g.minX), I(g.gridSize)))

BinRow(g, r) ==
  MathFloor(NDiv(NSub(NAdd(CellY(r), NDiv(I(result.gridSize), I(2))), g.minY), I(g.gridSize)))

\* bin (br, bc) lies in grid g and holds a height
ValidBin(g, br, bc) ==
  /\ br >= 0 /\ br < g.rows[2] /\ bc >= 0 /\ bc < g.cols[2]
  /\ g.heights[br * g.cols[2] + bc + 1] # NO_DATA

\* the bin of cell (r, c) in grid g, or one of its 8 neighbours, holds a
\* height
HeightNearby(g, r, c) ==
  \E dr \in -1..1, dc \in -1..1 : ValidBin(g, BinRow(g, r)[2] + dr, BinCol(g, c)[2] + dc)

\* the cells with an effective area for which both grids hold a height in
\* the bin or next to it
NearbyCells ==
  {p \in OverlapCells : /\ ~NLe(CellArea(p[1], p[2]), MinArea)
                        /\ HeightNearby(mesh1.grid, p[1], p[2])
                        /\ HeightNearby(mesh2.grid, p[1], p[2])}

\* C19: when the bin of a cell is NO_DATA in a grid but one of its 8
\* neighbours in that grid holds a height, the lookup returns a height and
\* the cell is integrated: every cell with a height nearby in both grids
\* counts in area
C19_LookupFallsBackToNeighbours ==
  ResultReturned => result.area = SumOver(CellArea, NearbyCells)

\* ------------------------------------------------------------------------
\* Properties of the boundary clipping (SpecVolume)
\* ------------------------------------------------------------------------
\* twice the signed area of the triangle a, b, c
Cross(a, b, c) ==
  NSub(NMul(NSub(b.x, a.x), NSub(c.y, a.y)), NMul(NSub(b.y, a.y), NSub(c.x, a.x)))

\* poly is convex and counter-clockwise
ConvexCCW(poly) ==
  /\ Len(poly) >= 3
  /\ \A i \in 1..Len(poly) :
       NGt(Cross(poly[i], poly[(i % Len(poly)) + 1], poly[((i + 1) % Len(poly)) + 1]), I(0))

\* the area of the intersection of the boundary with the square of cell
\* (r, c): the boundary cut by the four sides of the square
ExactArea(r, c) == getPolygonArea(clipPolygon(BoundaryInFrame, CellSquare(r, c)))

\* the boundary lies inside the overlap of the two grids
BoundaryInsideOverlap ==
  \A k \in 1..Len(BoundaryInFrame) :
    /\ NGe(BoundaryInFrame[k].x, result.diffMap.minX)
    /\ NLe(BoundaryInFrame[k].x, result.diffMap.maxX)
    /\ NGe(BoundaryInFrame[k].y, result.diffMap.minY)
    /\ NLe(BoundaryInFrame[k].y, result.diffMap.maxY)

\* both grids hold a height for every cell of the overlap
AllHeightsValid ==
  \A p \in OverlapCells :
    /\ NGt(CellHeight(mesh1.grid, p[1], p[2]), NO_DATA)
    /\ NGt(CellHeight(mesh2.grid, p[1], p[2]), NO_DATA)

\* the cells with both heights whose exact share of the boundary is above
\* the threshold, and the cells whose share is not
SharedCells ==
  {p \in OverlapCells : /\ ~NLe(ExactArea(p[1], p[2]), MinArea)
                        /\ ~NLe(CellHeight(mesh1.grid, p[1], p[2]), NO_DATA)
                        /\ ~NLe(CellHeight(mesh2.grid, p[1], p[2]), NO_DATA)}

Slivers == {p \in OverlapCells : NLe(ExactArea(p[1], p[2]), MinArea)}

ExactVolume(r, c) == NMul(MathAbs(CellDiff(r, c)), ExactArea(r, c))

\* C20: with a convex counter-clockwise boundary each overlap cell weighs
\* in with the exact area of the intersection of its square with the
\* boundary in the frame of grid1; when the boundary lies inside the overlap
\* and all heights are valid, area is the area of the boundary less the cells
\* skipped for an effective area <= 0.0001
C20_EffectiveAreaIsIntersection ==
  (ResultReturned /\ HasBoundary /\ ConvexCCW(BoundaryInFrame)) =>
    /\ result.area = SumOver(ExactArea, SharedCells)
    /\ NAdd(result.cutVolume, result.fillVolume) = SumOver(ExactVolume, SharedCells)
    /\ (BoundaryInsideOverlap /\ AllHeightsValid) =>
         result.area = NSub(getPolygonArea(BoundaryInFrame), SumOver(ExactArea, Slivers))

\* a triangle inside the overlap that cuts through both cells was compared
\* over valid heights
C20_Witness ==
  /\ ResultReturned /\ HasBoundary /\ ConvexCCW(BoundaryInFrame)
  /\ BoundaryInsideOverlap /\ AllHeightsValid
  /\ \E p \in OverlapCells, q \in OverlapCells :
       ExactArea(p[1], p[2]) = Fin(3, 4) /\ ExactArea(q[1], q[2]) = Fin(1, 4)
  /\ result.area = I(1)
  /\ NGt(result.fillVolume, I(0))

\* ------------------------------------------------------------------------
\* Further properties of fillHoles (SpecFill)
\* ------------------------------------------------------------------------
\* cell k lies in row 0, row rows - 1, column 0 or column cols - 1
BorderCell(k) == ~InteriorCell(k)

\* C21: fillHoles never fills a border cell: a cell of the first or last
\* row or column that is NO_DATA before the call is NO_DATA after it
C21_BorderNeverFilled ==
  fhpc = "returned" =>
    \A k \in 1..Len(fhEntry) :
      (BorderCell(k) /\ fhEntry[k] = NO_DATA) => fhGrid[k] = NO_DATA

\* other orders in which the cells of a grid can be visited
Reversed(rows_, cols_) == [k \in 1..(rows_ * cols_) |-> rows_ * cols_ + 1 - k]

ColumnMajor(rows_, cols_) ==
  [k \in 1..(rows_ * cols_) |-> ((k - 1) % rows_) * cols_ + ((k - 1) \div rows_) + 1]

\* the passes of fillHoles with the cells visited in the given order
RECURSIVE FillPassesInOrder(_, _, _, _, _)
FillPassesInOrder(grid, rows_, cols_, order, pass) ==
  IF pass >= FillPasses THEN grid
  ELSE With(FillInOrder(grid, grid, rows_, cols_, order, 1), LAMBDA copy :
         FillPassesInOrder(copy, rows_, cols_, order, pass + 1))

\* C22: within a pass the value written to a hole depends only on the
\* values at the start of the pass, so the cell loop gives the same grid in
\* the order of the code and in any other order
C22_PassIndependentOfOrder ==
  fhpc = "returned" =>
    \A order \in {RowMajor(fhRows, fhCols), Reversed(fhRows, fhCols),
                  ColumnMajor(fhRows, fhCols)} :
      FillPassesInOrder(fhEntry, fhRows, fhCols, order, 0) = fhGrid

\* two holes side by side were both filled by the first pass, each from
\* neighbours other than the other hole
C22_Witness ==
  /\ fhpc = "returned" /\ fhCols >= 2
  /\ \E k \in 1..(Len(fhEntry) - 1) :
       /\ k % fhCols # 0
       /\ fhEntry[k] = NO_DATA /\ fhEntry[k + 1] = NO_DATA
       /\ LET once == FillPass(fhEntry, fhEntry, fhRows, fhCols)
          IN  once[k] # NO_DATA /\ once[k + 1] # NO_DATA /\ fhGrid = once

\* C30: fillHoles never changes a cell that held a valid height before the
\* call, across both passes
C30_ValidCellsUnchanged ==
  fhpc = "returned" =>
    \A k \in 1..Len(fhEntry) : fhEntry[k] # NO_DATA => fhGrid[k] = fhEntry[k]

\* a hole was filled with the mean of neighbours of different heights, which
\* all kept their heights
C30_Witness ==
  /\ fhpc = "returned"
  /\ \E k \in 1..Len(fhEntry) : fhEntry[k] = NO_DATA /\ fhGrid[k] # NO_DATA
  /\ \E j \in 1..Len(fhEntry), k \in 1..Len(fhEntry) :
       /\ fhEntry[j] # NO_DATA /\ fhEntry[k] # NO_DATA /\ fhEntry[j] # fhEntry[k]
  /\ \A k \in 1..Len(fhEntry) : fhEntry[k] # NO_DATA => fhGrid[k] = fhEntry[k]

\* ------------------------------------------------------------------------
\* Properties of the cell index (SpecGridifier)
\* ------------------------------------------------------------------------
\* floor((v - min) / gridSize)
FloorIndex(v, min, size) == MathFloor(NDiv(NSub(v, min), I(size)))

\* the index into heights of the cell with the floor indices of a record,
\* -1 when that cell lies outside the grid
FloorCell(line) ==
  LET c == FloorIndex(NAdd(parseFloat(SplitWs(line)[2]), origin.x), bounds.minX, gridSize)
      r == FloorIndex(NAdd(parseFloat(SplitWs(line)[3]), origin.y), bounds.minY, gridSize)
  IN  IF IsFin(r) /\ IsFin(c) /\ IsFin(rows) /\ IsFin(cols)
         /\ r[2] >= 0 /\ r[2] < rows[2] /\ c[2] >= 0 /\ c[2] < cols[2]
      THEN r[2] * cols[2] + c[2]
      ELSE -1

\* C23: the binning pass puts a vertex into the cell with the indices
\* floor((x - minX) / gridSize), floor((y - minY) / gridSize), the index
\* function of the lookup of the volume engine: after binning that cell holds
\* at least the z of the vertex
C23_BinningUsesFloor ==
  Binned =>
    \A line \in AllLines(files) :
      (IsValidRecord(line) /\ IsFin(RecordZ(line)) /\ NGt(RecordZ(line), NO_DATA)) =>
        /\ FloorCell(line) = RecordCell(line)
        /\ FloorCell(line) >= 0
        /\ NGe(heights[FloorCell(line) + 1], RecordZ(line))

\* C24: the extent and the dimensions of the first pass clip no sample:
\* every vertex record that the extent scan accepts has, in the binning
\* pass, a cell with 0 <= r < rows and 0 <= c < cols
C24_NoSampleClipped ==
  Binned => \A line \in AllLines(files) : IsRecord(line) => RecordCell(line) >= 0

\* ------------------------------------------------------------------------
\* Properties of the calls of getIntersection (SpecVolume)
\* ------------------------------------------------------------------------
\* the segments <<s, e>> of input for which the inner loop of clipPolygon
\* calls getIntersection at one clip edge
ClipEdgeCalls(input, clipEdgeStart, clipEdgeEnd) ==
  {<<input[IF i = 1 THEN Len(input) ELSE i - 1], input[i], clipEdgeStart, clipEdgeEnd>> :
     i \in {k \in 1..Len(input) :
              isInsideEdge(input[k], clipEdgeStart, clipEdgeEnd)
                # isInsideEdge(input[IF k = 1 THEN Len(input) ELSE k - 1],
                               clipEdgeStart, clipEdgeEnd)}}

\* the calls of getIntersection that clipPolygon makes from clip edge j on
RECURSIVE ClipCallsFrom(_, _, _)
ClipCallsFrom(output, clip, j) ==
  IF j > Len(clip) \/ Len(output) = 0 THEN {}
  ELSE ClipEdgeCalls(output, clip[j], clip[(j % Len(clip)) + 1])
         \cup With(ClipEdge(output, 1, output[Len(output)], <<>>,
                            clip[j], clip[(j % Len(clip)) + 1]),
                   LAMBDA out : ClipCallsFrom(out, clip, j + 1))

\* the calls of getIntersection while the cells of the overlap are clipped
IntersectionCalls ==
  UNION {ClipCallsFrom(CellSquare(p[1], p[2]), BoundaryInFrame, 1) : p \in OverlapCells}

\* the boundary has a vertex twice in a row
RepeatedVertex ==
  \E k \in 1..(Len(BoundaryInFrame) - 1) :
    /\ BoundaryInFrame[k].x = BoundaryInFrame[k + 1].x
    /\ BoundaryInFrame[k].y = BoundaryInFrame[k + 1].y

\* C25: clipPolygon calls getIntersection only for a segment with exactly
\* one endpoint inside the clip edge, and never with a denominator of 0,
\* also when the boundary has a repeated vertex
C25_IntersectionDefined ==
  (ResultReturned /\ HasBoundary) =>
    \A call \in IntersectionCalls :
      /\ isInsideEdge(call[1], call[3], call[4]) # isInsideEdge(call[2], call[3], call[4])
      /\ Denominator(call[1], call[2], call[3], call[4]) # I(0)

\* cells were clipped against a boundary with a repeated vertex and
\* getIntersection was called
C25_Witness ==
  /\ ResultReturned /\ HasBoundary /\ RepeatedVertex
  /\ IntersectionCalls # {}
  /\ result.area = Fin(3, 2)

\* ------------------------------------------------------------------------
\* Properties of the App (SpecApp)
\* ------------------------------------------------------------------------
\* VolumeCalculator.calculate has been invoked by runAnalysis
Invoked == lastCall # Null

\* C26: the boundary argument of every invocation of calculate by
\* runAnalysis is the imported boundary polygon, and null when no boundary
\* has been imported
C26_BoundaryArgumentIsImported ==
  Invoked => lastCall.boundary = lastCall.imported

\* C27: the two grids of every invocation of calculate have the same
\* gridSize
C27_SameGridSize ==
  Invoked => lastCall.mesh1.grid.gridSize = lastCall.mesh2.grid.gridSize

\* a result is on display
ResultStored == appResult # Null

\* C28: a non-null result implies that mesh1 and mesh2 are both non-null and
\* that the result was computed from their current grids
C28_ResultFromCurrentGrids ==
  ResultStored =>
    /\ appMesh1 # Null /\ appMesh2 # Null
    /\ Invoked /\ lastCall.mesh1 = appMesh1 /\ lastCall.mesh2 = appMesh2
    /\ appResult = calculate(appMesh1, appMesh2, lastCall.boundary).result

\* every invocation of calculate by runAnalysis has thrown
EveryAnalysisThrows == Invoked => lastCall.err = "TypeError"

\* a run of processFiles or runAnalysis is pending in slot t
Running(t) == tasks[t] # NoTask

\* the error that the pending step of a run throws, "none" if it throws none
TaskError(task) ==
  IF task.kind = "processFiles"
  THEN processFoldersToGrid(IF task.pc = "files1" THEN task.files1 ELSE task.files2,
                            DefaultOrigin, task.gridSize).err
  ELSE calculate(task.mesh1, task.mesh2, ThirdArgument(task)).err

\* the step ends the run of slot t
Ends(t) == Running(t) /\ tasks'[t] = NoTask

\* C29: every started processFiles or runAnalysis ends, and the step that
\* ends it sets calculating to false, whether the computation returns or
\* throws; when it throws, the error message is set and no result is stored
C29_CalculatingReset ==
  /\ \A t \in 1..MaxTasks : Running(t) ~> (~Running(t) /\ ~calculating)
  /\ [][\A t \in 1..MaxTasks :
          Ends(t) =>
            /\ calculating' = FALSE
            /\ TaskError(tasks[t]) # "none" =>
                  error' = ErrorMessage(TaskError(tasks[t])) /\ appResult' = appResult]_vars

\* a run of processFiles has stored mesh1, a run of runAnalysis on it has
\* thrown and left its message in error; no run is pending
C29_Witness ==
  /\ Invoked /\ lastCall.err # "none" /\ error = ErrorMessage(lastCall.err)
  /\ lastCall.mesh1.name = "epoch1"
  /\ ~calculating
  /\ \A t \in 1..MaxTasks : ~Running(t)

====
